---- MODULE Spec2Model ----
(***************************************************************************)
(* EightBall (src/eightball.c): the line interpreter and the single-pass   *)
(* bytecode compiler, as one state machine.  A line of source text is a    *)
(* sequence of lexical tokens; a text pointer is a position in a line.     *)
(* The C globals are the variables; every C function that changes them is  *)
(* an operator from machine state to machine state, named as in the        *)
(* source; the actions are the steps of main(), run() and parseline().     *)
(* The build modelled is the __GNUC__ one: int is wider than 16 bits.      *)
(***************************************************************************)

EXTENDS Integers, Sequences, FiniteSets, TLC

(* Sequencing.  Bind(v, LAMBDA x : e) is e with x standing for v.  Step *)
(* is the same for a machine state: v is computed at the point of the   *)
(* binding, as a C statement completes before the next one starts.      *)
Bind(v, K(_)) == K(v)
Step(v, K(_)) == IF Len(<<v>>) = 1 THEN K(v) ELSE K(v)

(* ------------------------------------------------------------------ *)
(* Program constants                                                    *)
(* ------------------------------------------------------------------ *)
VARNUMCHARS == 4
STACKSZ == 16
RETSTACKSZ == 64
SENTINEL == 50
ILLEGAL == 100

TOK_UNM == 231
TOK_UNP == 232
TOK_NOT == 233
TOK_BITNOT == 234
TOK_STAR == 235
TOK_CARET == 236
TOK_EQL == 237
TOK_NEQL == 238
TOK_GTE == 239
TOK_LTE == 240
TOK_AND == 241
TOK_OR == 242
TOK_LSH == 243
TOK_RSH == 244
TOK_POW == 245
TOK_DIV == 246
TOK_MOD == 247
TOK_MUL == 248
TOK_ADD == 249
TOK_SUB == 250
TOK_GT == 251
TOK_LT == 252
TOK_BITAND == 253
TOK_BITOR == 254
TOK_BITXOR == 255

TOK_COMM == 150
TOK_PRDEC == 151
TOK_PRDEC_S == 152
TOK_PRMSG == 154
TOK_PRNL == 155
TOK_PRCH == 157
TOK_CLEAR == 161
TOK_WORD == 163
TOK_BYTE == 164
TOK_RUN == 166
TOK_COMPILE == 167
TOK_NEW == 168
TOK_SUBR == 169
TOK_ENDSUBR == 170
TOK_IF == 171
TOK_ELSE == 172
TOK_ENDIF == 173
TOK_CALL == 175
TOK_RET == 176
TOK_FOR == 177
TOK_ENDFOR == 178
TOK_WHILE == 179
TOK_ENDW == 180
TOK_END == 181
TOK_LOAD == 185
TOK_SAVE == 186
TOK_APP == 189
TOK_INS == 190

ERR_NOIF == 101
ERR_FILE == 115
ERR_LINE == 116
ERR_NOFOR == 102
ERR_NOWHILE == 103
ERR_NOSUB == 104
ERR_STACK == 105
ERR_COMPLEX == 106
ERR_VAR == 107
ERR_REDEF == 108
ERR_EXPECT == 109
ERR_EXTRA == 110
ERR_DIM == 111
ERR_SUBSCR == 112
ERR_RUNSUB == 113
ERR_EXPR == 117
ERR_ARG == 119
ERR_TYPE == 120
ERR_DIVZERO == 121
ERR_CONST == 123
ERR_STCONST == 124
ERR_TOOLONG == 125
ERR_LINK == 126

CALLFRAME == 65534
IFFRAME == 65533
FORFRAME_B == 65532
FORFRAME_W == 65531
WHILEFRAME == 65530

TYPE_CONST == 0
TYPE_WORD == 1
TYPE_BYTE == 2

WORD_MODE == 0
BYTE_MODE == 1
CONST_MODE == 2
LET_MODE == 3
FOR_MODE == 4

RET_SUCCESS == 0
RET_ERROR == 1

(* ------------------------------------------------------------------ *)
(* Addresses.  A text pointer is TxtBase + line * LineStride + position *)
(* (line 0 is lnbuf, line n > 0 is the n-th allocated lineofcode); the  *)
(* n-th vartabent is at VarBase + n * VarStride: that address stands    *)
(* for the entry and for its scalar storage, the next ones for the      *)
(* elements of its array body.                                          *)
(* ------------------------------------------------------------------ *)
TxtBase == 100000
LineStride == 100
VarBase == 200000
VarStride == 100

TxtAddr(line, pos) == TxtBase + line * LineStride + pos
IsTxtAddr(p) == p >= TxtBase /\ p < VarBase
LineOf(p) == (p - TxtBase) \div LineStride
PosOf(p) == (p - TxtBase) % LineStride
VarAddr(n) == VarBase + n * VarStride
IsVarAddr(p) == p > VarBase /\ p < VarBase + TxtBase
VarOf(p) == (p - VarBase) \div VarStride
OffOf(p) == (p - VarBase) % VarStride

(* ------------------------------------------------------------------ *)
(* Lexical tokens                                                       *)
(* ------------------------------------------------------------------ *)
Tok(t, v, s) == [t |-> t, v |-> v, s |-> s]
KW(code) == Tok("kw", code, <<>>)
ID(name) == Tok("id", 0, name)
NUM(n) == Tok("num", n, <<>>)
OP(chars) == Tok("op", 0, chars)
SYM(c) == Tok("sym", 0, <<c>>)
EOL == Tok("eol", 0, <<>>)

IsSym(tok, c) == tok.t = "sym" /\ tok.s = <<c>>
IsKw(tok, code) == tok.t = "kw" /\ tok.v = code

binaryops == <<"^", "/", "%", "*", "+", "-", ">", "<", "&", "|", "!">>
binaryops1 == <<"=", "!", ">", "<", "&", "|", "<", ">">>
binaryops2 == <<"=", "=", "=", "=", "&", "|", "<", ">">>
unaryops == <<"-", "+", "!", "~", "*", "^">>

binary(tok) ==
    IF tok.t # "op" THEN ILLEGAL
    ELSE IF Len(tok.s) = 2 /\ \E i \in 1..Len(binaryops1) :
                binaryops1[i] = tok.s[1] /\ binaryops2[i] = tok.s[2]
    THEN TOK_EQL + (CHOOSE i \in 1..Len(binaryops1) :
                      /\ binaryops1[i] = tok.s[1] /\ binaryops2[i] = tok.s[2]
                      /\ \A j \in 1..(i - 1) :
                            ~(binaryops1[j] = tok.s[1] /\ binaryops2[j] = tok.s[2])) - 1
    ELSE IF Len(tok.s) = 1 /\ \E i \in 1..Len(binaryops) : binaryops[i] = tok.s[1]
    THEN TOK_POW + (CHOOSE i \in 1..Len(binaryops) : binaryops[i] = tok.s[1]) - 1
    ELSE ILLEGAL

unary(tok) ==
    IF tok.t = "op" /\ Len(tok.s) = 1 /\ \E i \in 1..Len(unaryops) : unaryops[i] = tok.s[1]
    THEN TOK_UNM + (CHOOSE i \in 1..Len(unaryops) : unaryops[i] = tok.s[1]) - 1
    ELSE ILLEGAL

ISUNARY(tok) == tok >= TOK_UNM /\ tok <= TOK_CARET

key(name) == IF Len(name) > VARNUMCHARS THEN SubSeq(name, 1, VARNUMCHARS) ELSE name

(* ------------------------------------------------------------------ *)
(* State: the globals of eightball.c, plus the position of control      *)
(* (pc, status, hostStack: the run() activations under the current      *)
(* parseline()), the printed output and the outcome of undefined        *)
(* behaviour (ub: what an out-of-bounds or stale read yields).          *)
(* ------------------------------------------------------------------ *)
VARIABLES lines, freed, program, lnbuf, readbuf, current, counter, txtPtr,
          operand_stack, operator_stack, return_stack,
          operatorSP, operandSP, returnSP,
          skipFlag, calllevel, retregister,
          vars, varsbegin, varsend, varslocal,
          compile, compilingsub, onlyconstants, compiletimelookup,
          rtPC, rtSP, rtFP, rtPCBeforeEval, code, subs, calls,
          pc, status, hostStack, halt, out, ub, inputs, stop, file, editmode, log

allvars == <<lines, freed, program, lnbuf, readbuf, current, counter, txtPtr,
             operand_stack, operator_stack, return_stack,
             operatorSP, operandSP, returnSP,
             skipFlag, calllevel, retregister,
             vars, varsbegin, varsend, varslocal,
             compile, compilingsub, onlyconstants, compiletimelookup,
             rtPC, rtSP, rtFP, rtPCBeforeEval, code, subs, calls,
             pc, status, hostStack, halt, out, ub, inputs, stop, file, editmode, log>>

(* The machine state as one record; rc, rv, rtype and rlocal carry a    *)
(* C function's return code and out-parameters to its caller.           *)
S == [lines |-> lines, freed |-> freed, program |-> program, lnbuf |-> lnbuf,
      readbuf |-> readbuf,
      current |-> current, counter |-> counter, txtPtr |-> txtPtr,
      operand_stack |-> operand_stack, operator_stack |-> operator_stack,
      return_stack |-> return_stack, operatorSP |-> operatorSP,
      operandSP |-> operandSP, returnSP |-> returnSP, skipFlag |-> skipFlag,
      calllevel |-> calllevel, retregister |-> retregister, vars |-> vars,
      varsbegin |-> varsbegin, varsend |-> varsend, varslocal |-> varslocal,
      compile |-> compile, compilingsub |-> compilingsub,
      onlyconstants |-> onlyconstants, compiletimelookup |-> compiletimelookup,
      rtPC |-> rtPC, rtSP |-> rtSP, rtFP |-> rtFP,
      rtPCBeforeEval |-> rtPCBeforeEval, code |-> code, subs |-> subs,
      calls |-> calls, pc |-> pc, status |-> status, hostStack |-> hostStack,
      halt |-> halt, out |-> out, ub |-> ub, inputs |-> inputs, stop |-> stop,
      file |-> file, editmode |-> editmode, log |-> log,
      rc |-> 0, rv |-> 0, rtype |-> 0, rlocal |-> 0]

Commit(s) ==
    /\ lines' = s.lines /\ freed' = s.freed /\ program' = s.program
    /\ lnbuf' = s.lnbuf /\ readbuf' = s.readbuf
    /\ current' = s.current /\ counter' = s.counter
    /\ txtPtr' = s.txtPtr /\ operand_stack' = s.operand_stack
    /\ operator_stack' = s.operator_stack /\ return_stack' = s.return_stack
    /\ operatorSP' = s.operatorSP /\ operandSP' = s.operandSP
    /\ returnSP' = s.returnSP /\ skipFlag' = s.skipFlag
    /\ calllevel' = s.calllevel /\ retregister' = s.retregister
    /\ vars' = s.vars /\ varsbegin' = s.varsbegin /\ varsend' = s.varsend
    /\ varslocal' = s.varslocal /\ compile' = s.compile
    /\ compilingsub' = s.compilingsub /\ onlyconstants' = s.onlyconstants
    /\ compiletimelookup' = s.compiletimelookup /\ rtPC' = s.rtPC
    /\ rtSP' = s.rtSP /\ rtFP' = s.rtFP /\ rtPCBeforeEval' = s.rtPCBeforeEval
    /\ code' = s.code /\ subs' = s.subs /\ calls' = s.calls /\ pc' = s.pc
    /\ status' = s.status /\ hostStack' = s.hostStack /\ halt' = s.halt
    /\ out' = s.out /\ ub' = s.ub /\ inputs' = s.inputs /\ stop' = s.stop
    /\ file' = s.file /\ editmode' = s.editmode /\ log' = s.log

NoStop == [at |-> 0, held |-> FALSE]
NoFile == [exists |-> FALSE, data |-> <<>>]
Ok(s) == s.halt = "none"
Rc(s, r) == IF s.halt = "none" THEN [s EXCEPT !.rc = r] ELSE s
Failed(s) == s.halt # "none" \/ s.rc # 0

(* What a read outside an array, or through a stale pointer, yields. *)
WildWord == TxtBase + VarBase
OobWord(s) == IF s.ub = "benign" THEN 0 ELSE WildWord

longjmp(s) == IF s.halt = "none" THEN [s EXCEPT !.halt = "jmp"] ELSE s
EXIT(s, n) == IF s.halt = "none" THEN [s EXCEPT !.halt = "exit", !.rv = n] ELSE s
Fault(s) == IF s.halt = "none" THEN [s EXCEPT !.halt = "segv"] ELSE s

(* Output: characters, decimal numbers, messages *)
Item(k, v, m) == [k |-> k, v |-> v, m |-> m]
printitem(s, it) == IF s.halt = "none" THEN [s EXCEPT !.out = Append(@, it)] ELSE s
printchar(s, c) == printitem(s, Item("ch", 0, c))
(* The character printed for a code: the codes the program texts use *)
ChrOf(n) == IF n = 32 THEN " " ELSE IF n = 10 THEN "\n" ELSE IF n = 45 THEN "-" ELSE "?"
printdec(s, n) == printitem(s, Item("dec", n, ""))
print(s, m) == printitem(s, Item("msg", 0, m))

errmsgs ==
    [e \in ERR_NOIF..ERR_LINK |->
       CASE e = ERR_NOIF -> "no if"      [] e = ERR_NOFOR -> "no for"
         [] e = ERR_NOWHILE -> "no while" [] e = ERR_NOSUB -> "no sub"
         [] e = ERR_STACK -> "stack"      [] e = ERR_COMPLEX -> "complex"
         [] e = ERR_VAR -> "expect var"   [] e = ERR_REDEF -> "redef"
         [] e = ERR_EXPECT -> "expected " [] e = ERR_EXTRA -> "extra"
         [] e = ERR_DIM -> "bad dim"      [] e = ERR_SUBSCR -> "bad idx"
         [] e = ERR_RUNSUB -> "ran into sub" [] e = ERR_EXPR -> "bad expr"
         [] e = ERR_ARG -> "arg"          [] e = ERR_TYPE -> "type"
         [] e = ERR_DIVZERO -> "div/0"    [] e = ERR_CONST -> "not const"
         [] e = ERR_STCONST -> "const"    [] e = ERR_TOOLONG -> "too long"
         [] e = ERR_LINK -> "link"        [] e = ERR_FILE -> "file"
         [] e = ERR_LINE -> "bad line#"
         [] OTHER -> "?"]

error(s, errcode) == printitem(s, Item("err", errcode, errmsgs[errcode]))

RECURSIVE Do(_, _, _)

(* ------------------------------------------------------------------ *)
(* Bytecode emitter.  A byte of code memory is an opcode or a data byte *)
(* (an immediate operand is two data bytes, low byte first).            *)
(* ------------------------------------------------------------------ *)
RTPCSTART == 0
RTCALLSTACKTOP == 65535
RTCALLSTACKLIM == 32768

OpByte(o) == [op |-> o, b |-> 0]
DataByte(n) == [op |-> "", b |-> n]
Lo(w) == (w % 65536) % 256
Hi(w) == (w % 65536) \div 256

(* The bytes an instruction of the virtual machine pushes on its call  *)
(* stack, negative for a pop; log.vsp sums them over the emitted code.  *)
PushBytes(o) ==
    CASE o = "PSHWORD" -> 2 [] o = "PSHBYTE" -> 1
      [] o = "POPWORD" -> 0 - 2 [] o = "POPBYTE" -> 0 - 1
      [] OTHER -> 0

EmInit == [one |-> 0, imm |-> 0, msg |-> 0, chars |-> 0]

(* log.em: the calls of emit(), of emit_imm() and of emitprmsg() since  *)
(* the start of the compile, and the characters of the messages.       *)
emit(s, o) ==
    IF s.halt = "none"
    THEN [s EXCEPT !.code = Append(@, OpByte(o)), !.rtPC = @ + 1,
                   !.log.vsp = @ + PushBytes(o), !.log.em.one = @ + 1]
    ELSE s

(* log.placed: the operand addresses emitted as the placeholder 0xffff; *)
(* log.open: those of them not yet overwritten by emit_fixup().         *)
emit_imm(s, o, word) ==
    IF s.halt = "none"
    THEN [s EXCEPT !.code = @ \o <<OpByte(o), DataByte(Lo(word)), DataByte(Hi(word))>>,
                   !.rtPC = @ + 3, !.log.em.imm = @ + 1,
                   !.log.placed = IF word = 65535 THEN @ \cup {s.rtPC + 1} ELSE @,
                   !.log.open = IF word = 65535 THEN @ \cup {s.rtPC + 1} ELSE @]
    ELSE s

emitldi(s, x) == Do("emit_imm", s, <<"LDIMM", x>>)

(* Ghost: what a call of emit_fixup() did: the bytes now at the        *)
(* address, whether every other byte of the code is as it was, and     *)
(* whether rtPC and the end of the code are where they were.           *)
LogFix(before, after, address, word) ==
    LET i == address - RTPCSTART + 1
        n == Len(after.code)
    IN [after EXCEPT !.log.fx = @ \cup
          {[addr |-> address, word |-> word,
            bytes |-> IF i >= 1 /\ i + 1 <= n THEN <<after.code[i], after.code[i + 1]>>
                      ELSE <<>>,
            rest |-> /\ n = Len(before.code)
                     /\ \A j \in 1..n : j \notin {i, i + 1} => after.code[j] = before.code[j],
            same |-> after.rtPC = before.rtPC /\ n = Len(before.code)]}]

(* Writes the two bytes at CODESTART + address - RTPCSTART.  A fixup   *)
(* of an address that was never a placeholder is recorded in           *)
(* log.badfix.  Code memory is the start of heap1: a write beyond the   *)
(* code emitted so far lands in memory that later code overwrites.      *)
emit_fixup(s, address, word) ==
    IF s.halt # "none" THEN s
    ELSE LET i == address - RTPCSTART + 1
             s1 == [s EXCEPT !.log.open = @ \ {address},
                             !.log.badfix = IF address \in s.log.placed THEN @
                                            ELSE @ \cup {address}]
         IN LogFix(s, (IF i >= 1 /\ i + 1 <= Len(s.code)
                       THEN [s1 EXCEPT !.code[i] = DataByte(Lo(word)),
                                       !.code[i + 1] = DataByte(Hi(word))]
                       ELSE IF i >= 1 /\ i <= Len(s.code)
                       THEN [s1 EXCEPT !.code[i] = DataByte(Lo(word))]
                       ELSE s1), address, word)

rt_push_callstack(s, bytes) ==
    IF s.halt # "none" THEN s
    ELSE IF s.rtSP - bytes < RTCALLSTACKLIM
    THEN longjmp(print(s, "No tgt mem!"))
    ELSE [s EXCEPT !.rtSP = @ - bytes, !.rv = s.rtSP - bytes]

(* ------------------------------------------------------------------ *)
(* Expression stacks and the return stack                               *)
(* ------------------------------------------------------------------ *)
(* Ghost: an element outside an expression stack accessed ("oob"), a   *)
(* stack pointer outside the stack ("sp"), the base of a sub-expression *)
(* popped by the precedence drain ("sentinel").                          *)
InExprStack(i) == i \in 0..STACKSZ - 1
LogX(s, kind, bad) ==
    IF bad THEN [s EXCEPT !.log.xs = @ \cup {kind}] ELSE s
LogAccess(s, i, sp) == LogX(LogX(s, "oob", ~InExprStack(i)), "sp", ~InExprStack(sp))

(* Stores the operator and moves the pointer whatever the pointer is *)
push_operator_stack_unchecked(s, operator) ==
    IF s.halt # "none" THEN s
    ELSE LogAccess(IF InExprStack(s.operatorSP)
                   THEN [s EXCEPT !.operator_stack[s.operatorSP] = operator,
                                  !.operatorSP = @ - 1]
                   ELSE [s EXCEPT !.operatorSP = @ - 1],
                   s.operatorSP, s.operatorSP - 1)

push_operator_stack(s, operator) ==
    IF s.halt # "none" THEN s
    ELSE LET s1 == LogAccess([s EXCEPT !.operator_stack[s.operatorSP] = operator],
                             s.operatorSP, s.operatorSP)
         IN IF s.operatorSP = 0
            THEN longjmp(Do("error", s1, <<ERR_COMPLEX>>))
            ELSE LogAccess([s1 EXCEPT !.operatorSP = @ - 1], s.operatorSP, s.operatorSP - 1)

pop_operator_stack(s) ==
    IF s.halt # "none" THEN s
    ELSE IF s.operatorSP = STACKSZ - 1 THEN longjmp(s)
    ELSE LogAccess([s EXCEPT !.operatorSP = @ + 1, !.rv = s.operator_stack[s.operatorSP + 1]],
                   s.operatorSP + 1, s.operatorSP + 1)

top_operator_stack(s) ==
    IF s.operatorSP + 1 <= STACKSZ - 1 THEN s.operator_stack[s.operatorSP + 1]
    ELSE OobWord(s) % 256

push_operand_stack(s, operand) ==
    IF s.halt # "none" THEN s
    ELSE IF s.compile = 1 THEN emitldi(s, operand)
    ELSE LET s1 == LogAccess([s EXCEPT !.operand_stack[s.operandSP] = operand],
                             s.operandSP, s.operandSP)
         IN IF s.operandSP = 0
            THEN longjmp(Do("error", s1, <<ERR_COMPLEX>>))
            ELSE LogAccess([s1 EXCEPT !.operandSP = @ - 1], s.operandSP, s.operandSP - 1)

pop_operand_stack(s) ==
    IF s.halt # "none" THEN s
    ELSE IF s.compile = 1 THEN [s EXCEPT !.rv = 0]
    ELSE IF s.operandSP = STACKSZ - 1 THEN longjmp(s)
    ELSE LogAccess([s EXCEPT !.operandSP = @ + 1, !.rv = s.operand_stack[s.operandSP + 1]],
                   s.operandSP + 1, s.operandSP + 1)

push_return(s, linenum) ==
    IF s.halt # "none" THEN s
    ELSE LET s1 == [s EXCEPT !.return_stack[s.returnSP] = linenum]
         IN IF s.returnSP = 0
            THEN longjmp(Do("error", s1, <<ERR_STACK>>))
            ELSE [s1 EXCEPT !.returnSP = @ - 1]

pop_return(s) ==
    IF s.halt # "none" THEN s
    ELSE IF s.returnSP = RETSTACKSZ - 1 THEN longjmp(Do("error", s, <<ERR_STACK>>))
    ELSE [s EXCEPT !.returnSP = @ + 1, !.rv = s.return_stack[s.returnSP + 1]]

(* return_stack[i] as the code reads it, also outside the array *)
RS(s, i) == IF i >= 0 /\ i <= RETSTACKSZ - 1 THEN s.return_stack[i] ELSE OobWord(s)

getprecedence(token) ==
    CASE token \in {TOK_UNP, TOK_UNM, TOK_STAR, TOK_CARET, TOK_NOT, TOK_BITNOT} -> 11
      [] token \in {TOK_POW, TOK_DIV, TOK_MUL, TOK_MOD} -> 10
      [] token \in {TOK_ADD, TOK_SUB} -> 9
      [] token \in {TOK_LSH, TOK_RSH} -> 8
      [] token \in {TOK_GT, TOK_GTE, TOK_LT, TOK_LTE} -> 7
      [] token \in {TOK_EQL, TOK_NEQL} -> 6
      [] token = TOK_BITAND -> 5
      [] token = TOK_BITXOR -> 4
      [] token = TOK_BITOR -> 3
      [] token = TOK_AND -> 2
      [] token = TOK_OR -> 1
      [] token = SENTINEL -> 0
      [] OTHER -> -1

(* ------------------------------------------------------------------ *)
(* Program text                                                         *)
(* ------------------------------------------------------------------ *)
TextOf(s, l) == IF l = 0 THEN s.lnbuf ELSE s.lines[l].line

(* txtPtr points into a line that exists; text of a line that new()   *)
(* has freed is readable only if the allocator left it intact.         *)
TxtOk(s) ==
    /\ IsTxtAddr(s.txtPtr)
    /\ LineOf(s.txtPtr) <= Len(s.lines)
    /\ (LineOf(s.txtPtr) \in s.freed => s.ub = "benign")

TokAt(s, p) ==
    IF IsTxtAddr(p) /\ LineOf(p) <= Len(s.lines)
       /\ PosOf(p) >= 1 /\ PosOf(p) <= Len(TextOf(s, LineOf(p)))
    THEN TextOf(s, LineOf(p))[PosOf(p)]
    ELSE EOL

CurTok(s) == TokAt(s, s.txtPtr)
Adv(s, n) == IF s.halt = "none" THEN [s EXCEPT !.txtPtr = @ + n] ELSE s

expect(s, c) ==
    IF s.halt # "none" THEN s
    ELSE IF IsSym(CurTok(s), c) THEN Rc(Adv(s, 1), 0)
    ELSE Rc(printitem(Do("error", s, <<ERR_EXPECT>>), Item("ch", 0, c)), 1)

(* ------------------------------------------------------------------ *)
(* Variable table.  vars is the linked list from varsbegin in list      *)
(* order; a var_t pointer is an index into it, 0 is NULL.               *)
(* ------------------------------------------------------------------ *)
SizeofVarT == 16
SizeofInt == 4
HEAP1SZ == 16384

MarkerName == <<"-", "-", "-", "-">>
VarEnt(name, type, val, bodyptr, sz, body) ==
    [name |-> name, type |-> type, val |-> val, bodyptr |-> bodyptr,
     sz |-> sz, body |-> body]
IsArrayT(type) == (type \div 16) % 2
IsConstT(type) == (type \div 32) % 2
BaseT(type) == type % 16

EntSize(e) ==
    SizeofVarT +
    (IF IsArrayT(e.type) = 1
     THEN 2 * SizeofInt + Len(e.body) * (IF BaseT(e.type) = TYPE_WORD THEN SizeofInt ELSE 1)
     ELSE IF BaseT(e.type) = TYPE_WORD THEN SizeofInt ELSE 1)

RECURSIVE HeapUsedUpTo(_, _)
HeapUsedUpTo(s, n) == IF n = 0 THEN 0 ELSE EntSize(s.vars[n]) + HeapUsedUpTo(s, n - 1)

alloc1(s, bytes) ==
    IF s.halt # "none" THEN s
    ELSE IF HeapUsedUpTo(s, Len(s.vars)) + bytes > HEAP1SZ - 1
    THEN longjmp(print(s, "No mem (1)!"))
    ELSE s

MinOf(set) == CHOOSE x \in set : \A y \in set : x <= y
MaxOf(set) == CHOOSE x \in set : \A y \in set : x >= y

(* Result in rv (the entry, 0 if none) and rlocal *)
findintvar(s, name, local) ==
    LET n == Len(s.vars)
        loc == IF s.varslocal = 0 THEN {}
               ELSE {i \in s.varslocal..n : s.vars[i].name = key(name)}
        glob == IF s.varsbegin = 0 THEN {}
                ELSE {i \in s.varsbegin..n :
                        /\ s.vars[i].name = key(name)
                        /\ \A j \in s.varsbegin..i : s.vars[j].name[1] # "-"}
    IN IF loc # {} THEN [s EXCEPT !.rv = MinOf(loc), !.rlocal = 1]
       ELSE IF local = 1 THEN [s EXCEPT !.rv = 0, !.rlocal = 1]
       ELSE IF glob # {} THEN [s EXCEPT !.rv = MinOf(glob), !.rlocal = 0]
       ELSE [s EXCEPT !.rv = 0, !.rlocal = local]

clearvars(s) ==
    IF s.halt # "none" THEN s
    ELSE [s EXCEPT !.vars = <<>>, !.varsbegin = 0, !.varsend = 0, !.varslocal = 0,
                   !.log.pend = {},
                   !.log.frames = [i \in 1..Len(@) |-> [@[i] EXCEPT !.cleared = TRUE]]]

(* Appends entry v to the list: the tail of createintvar() *)
LinkVar(s, v) ==
    LET s1 == [s EXCEPT !.vars = Append(@, v), !.varsend = Len(s.vars) + 1]
    IN IF s.varsbegin = 0
       THEN [s1 EXCEPT !.varsbegin = s1.varsend, !.varslocal = s1.varsend]
       ELSE s1

vars_markcallframe(s) ==
    IF s.halt # "none" THEN s
    ELSE LET s0 == Do("alloc1", s, <<SizeofVarT + SizeofInt>>)
             m == VarEnt(MarkerName, TYPE_WORD,
                         IF s.varsend = 0 THEN 0 ELSE VarAddr(s.varsend), 0, 0, <<>>)
             k == Len(s.vars) + 1
         IN IF s0.halt # "none" THEN [s0 EXCEPT !.calllevel = @ + 1]
            ELSE [s0 EXCEPT !.calllevel = @ + 1, !.vars = Append(@, m),
                            !.varslocal = k, !.varsend = k,
                            !.varsbegin = IF @ = 0 THEN k ELSE @]

(* The int that getptrtoscalarword() reads from an entry *)
StoredWord(s, e) ==
    IF IsArrayT(e.type) = 1 THEN e.bodyptr
    ELSE IF BaseT(e.type) = TYPE_WORD THEN e.val
    ELSE IF s.ub = "benign" THEN e.val ELSE WildWord

LastMarker(vs) ==
    LET ms == {i \in 1..Len(vs) : vs[i].name[1] = "-"}
    IN IF ms = {} THEN 0 ELSE MaxOf(ms)

vars_keepcallframe(s) ==
    IF s.halt # "none" THEN s ELSE [s EXCEPT !.calllevel = @ - 1]

vars_deletecallframe(s) ==
    IF s.halt # "none" THEN s
    ELSE IF s.varslocal = 0 THEN Fault(s)
    ELSE LET w == StoredWord(s, s.vars[s.varslocal])
             newend == IF w = 0 THEN 0 ELSE VarOf(w)
         IN IF w # 0 /\ ~(IsVarAddr(w) /\ OffOf(w) = 0 /\ newend >= 1 /\ newend <= Len(s.vars))
            THEN Fault(s)
            ELSE LET vs == IF s.varsbegin = 0 THEN <<>> ELSE SubSeq(s.vars, 1, newend)
                 IN [s EXCEPT !.vars = vs,
                              !.varsbegin = IF newend = 0 THEN 0 ELSE @,
                              !.varsend = newend,
                              !.calllevel = @ - 1,
                              !.varslocal = LastMarker(vs),
                              !.log.pend = {p \in @ : p[1] <= Len(vs)}]

(* ------------------------------------------------------------------ *)
(* C arithmetic on int                                                  *)
(* ------------------------------------------------------------------ *)
Abs(x) == IF x < 0 THEN -x ELSE x
CDiv(a, b) == IF (a < 0) = (b < 0) THEN Abs(a) \div Abs(b) ELSE -(Abs(a) \div Abs(b))
CMod(a, b) == a - b * CDiv(a, b)
Bool(b) == IF b THEN 1 ELSE 0

RECURSIVE Pow2(_)
Pow2(n) == IF n <= 0 THEN 1 ELSE 2 * Pow2(n - 1)

BitWidth == 24
ToBits(x) == x % Pow2(BitWidth)
FromBits(u) == IF u >= Pow2(BitWidth - 1) THEN u - Pow2(BitWidth) ELSE u

RECURSIVE BitOp(_, _, _, _)
BitOp(f, a, b, n) ==
    IF n = 0 THEN 0
    ELSE LET x == a % 2
             y == b % 2
             z == CASE f = "and" -> Bool(x = 1 /\ y = 1)
                    [] f = "or" -> Bool(x = 1 \/ y = 1)
                    [] OTHER -> Bool(x # y)
         IN z + 2 * BitOp(f, a \div 2, b \div 2, n - 1)

BitAnd(a, b) == FromBits(BitOp("and", ToBits(a), ToBits(b), BitWidth))
BitOr(a, b) == FromBits(BitOp("or", ToBits(a), ToBits(b), BitWidth))
BitXor(a, b) == FromBits(BitOp("xor", ToBits(a), ToBits(b), BitWidth))
BitNot(a) == -a - 1

RECURSIVE PowLoop(_, _, _, _)
PowLoop(x, y, i, ret) == IF i < y THEN PowLoop(x, y, i + 1, ret * x) ELSE ret
_pow(x, y) == PowLoop(x, y, 0, 1)

(* Reading an int or an unsigned char through address addr: [ok, v] *)
Peek(s, addr) ==
    IF IsVarAddr(addr) /\ VarOf(addr) >= 1 /\ VarOf(addr) <= Len(s.vars)
    THEN LET e == s.vars[VarOf(addr)]
         IN IF OffOf(addr) = 0 THEN [ok |-> TRUE, v |-> StoredWord(s, e)]
            ELSE IF OffOf(addr) <= Len(e.body)
            THEN [ok |-> TRUE, v |-> e.body[OffOf(addr)]]
            ELSE [ok |-> s.ub = "benign", v |-> 0]
    ELSE [ok |-> s.ub = "benign", v |-> 0]

(* Storing v through address addr, as an unsigned char if width is 1 *)
Poke(s, addr, v, width) ==
    IF s.halt # "none" THEN s
    ELSE IF IsVarAddr(addr) /\ VarOf(addr) >= 1 /\ VarOf(addr) <= Len(s.vars)
    THEN LET n == VarOf(addr)
             e == s.vars[n]
             x == IF width = 1 THEN v % 256 ELSE v
         IN IF OffOf(addr) = 0 /\ IsArrayT(e.type) = 0
            THEN [s EXCEPT !.vars[n].val = x]
            ELSE IF OffOf(addr) >= 1 /\ OffOf(addr) <= Len(e.body)
            THEN [s EXCEPT !.vars[n].body[OffOf(addr)] = x]
            ELSE Fault(s)
    ELSE Fault(s)

(* ------------------------------------------------------------------ *)
(* pop_operator(), push_operator()                                      *)
(* ------------------------------------------------------------------ *)
VMOpOf(token) ==
    CASE token = TOK_MUL -> "MUL" [] token = TOK_DIV -> "DIV" [] token = TOK_MOD -> "MOD"
      [] token = TOK_ADD -> "ADD" [] token = TOK_SUB -> "SUB" [] token = TOK_GT -> "GT"
      [] token = TOK_GTE -> "GTE" [] token = TOK_LT -> "LT" [] token = TOK_LTE -> "LTE"
      [] token = TOK_EQL -> "EQL" [] token = TOK_NEQL -> "NEQL" [] token = TOK_AND -> "AND"
      [] token = TOK_OR -> "OR" [] token = TOK_BITAND -> "BITAND"
      [] token = TOK_BITOR -> "BITOR" [] token = TOK_BITXOR -> "BITXOR"
      [] token = TOK_LSH -> "LSH" [] token = TOK_RSH -> "RSH" [] token = TOK_UNM -> "NEG"
      [] token = TOK_NOT -> "NOT" [] token = TOK_BITNOT -> "BITNOT"
      [] token = TOK_STAR -> "LDAWORD" [] token = TOK_CARET -> "LDABYTE"
      [] OTHER -> ""

ShiftOk(n) == n >= 0 /\ n < BitWidth

BinaryResult(s, token, operand2, operand1) ==
    CASE token = TOK_MUL -> operand2 * operand1
      [] token = TOK_DIV -> CDiv(operand2, operand1)
      [] token = TOK_MOD -> CMod(operand2, operand1)
      [] token = TOK_ADD -> operand2 + operand1
      [] token = TOK_SUB -> operand2 - operand1
      [] token = TOK_GT -> Bool(operand2 > operand1)
      [] token = TOK_GTE -> Bool(operand2 >= operand1)
      [] token = TOK_LT -> Bool(operand2 < operand1)
      [] token = TOK_LTE -> Bool(operand2 <= operand1)
      [] token = TOK_EQL -> Bool(operand2 = operand1)
      [] token = TOK_NEQL -> Bool(operand2 # operand1)
      [] token = TOK_AND -> Bool(operand2 # 0 /\ operand1 # 0)
      [] token = TOK_OR -> Bool(operand2 # 0 \/ operand1 # 0)
      [] token = TOK_BITAND -> BitAnd(operand2, operand1)
      [] token = TOK_BITOR -> BitOr(operand2, operand1)
      [] token = TOK_BITXOR -> BitXor(operand2, operand1)
      [] token = TOK_LSH -> IF ShiftOk(operand1) THEN operand2 * Pow2(operand1) ELSE OobWord(s)
      [] token = TOK_RSH -> IF ShiftOk(operand1) THEN operand2 \div Pow2(operand1) ELSE OobWord(s)
      [] OTHER -> 0

(* Ghost: each application of / or % to a zero right operand by the    *)
(* interpreter, with what it reported and did to the operand stack.    *)
LogDz(before, after, token, operand1) ==
    IF token \in {TOK_DIV, TOK_MOD} /\ operand1 = 0 /\ after.halt = "none"
    THEN [after EXCEPT !.log.dz =
            Append(@, [err |-> IF Len(after.out) > Len(before.out)
                               THEN after.out[Len(after.out)].v ELSE 0,
                       pushed |-> after.operandSP # before.operandSP,
                       rc |-> after.rc])]
    ELSE after

(* Ghost: the code the compiler emitted when it applied an operator *)
LogOp(before, after, token) ==
    IF before.compile = 1 /\ after.halt = "none"
    THEN [after EXCEPT !.log.ops =
            @ \cup {[tok |-> token,
                     code |-> SubSeq(after.code, Len(before.code) + 1, Len(after.code))]}]
    ELSE after

pop_operator(s) ==
    IF s.halt # "none" THEN s
    ELSE
    LET s1 == Do("pop_operator_stack", s, <<>>)
        token == s1.rv IN
        Bind( pop_operand_stack(s1), LAMBDA s2 : LET
        operand1 == s2.rv
    IN IF s2.halt # "none" THEN s2
       ELSE IF ~ISUNARY(token)
       THEN     Bind( pop_operand_stack(s2), LAMBDA s3 : LET
                operand2 == s3.rv
            IN IF s3.halt # "none" THEN s3
               ELSE IF token = TOK_POW
               THEN LogOp(s, Rc(Do("push_operand_stack", s3, <<_pow(operand2, operand1)>>), 0), token)
               ELSE IF token < TOK_EQL \/ token > TOK_BITXOR THEN EXIT(s3, 99)
               ELSE IF s3.compile = 1 THEN LogOp(s, Rc(Do("emit", s3, <<VMOpOf(token)>>), 0), token)
               ELSE LogDz(s3, (IF token \in {TOK_DIV, TOK_MOD} /\ operand1 = 0
                               THEN Rc(Do("error", s3, <<ERR_DIVZERO>>), 1)
                               ELSE Rc(Do("push_operand_stack", s3, <<BinaryResult(s3, token, operand2, operand1)>>), 0)),
                          token, operand1))
       ELSE IF s2.compile = 1
       THEN LogOp(s, Rc(IF token = TOK_UNP THEN s2 ELSE Do("emit", s2, <<VMOpOf(token)>>), 0), token)
       ELSE IF token \in {TOK_STAR, TOK_CARET}
       THEN LET m == Do("Peek", s2, <<operand1>>)
            IN IF m.ok
               THEN Rc(Do("push_operand_stack", s2, <<IF token = TOK_CARET THEN m.v % 256 ELSE m.v>>), 0)
               ELSE Fault(s2)
       ELSE Rc(Do("push_operand_stack", s2, <<CASE token = TOK_UNM -> -operand1
                   [] token = TOK_UNP -> operand1
                   [] token = TOK_NOT -> Bool(operand1 = 0)
                   [] OTHER -> BitNot(operand1)>>), 0))

(* Pushes the operator and applies none of those on the stack *)
push_operator_late(s, operator_token) == Rc(Do("push_operator_stack", s, <<operator_token>>), 0)

push_operator(s, operator_token) ==
    IF s.halt # "none" THEN s
    ELSE IF getprecedence(top_operator_stack(s)) = -1
    THEN EXIT(LogAccess(s, s.operatorSP + 1, s.operatorSP), 99)
    ELSE IF getprecedence(top_operator_stack(s)) >= getprecedence(operator_token)
    THEN LET s1 == Do("pop_operator", LogX(LogAccess(s, s.operatorSP + 1, s.operatorSP),
                                     "sentinel", top_operator_stack(s) = SENTINEL), <<>>)
         IN IF Failed(s1) THEN s1 ELSE Do("push_operator", s1, <<operator_token>>)
    ELSE Rc(Do("push_operator_stack", LogAccess(s, s.operatorSP + 1, s.operatorSP), <<operator_token>>), 0)

(* ------------------------------------------------------------------ *)
(* setintvar(), getintvar()                                             *)
(* ------------------------------------------------------------------ *)
IsWordT(type) == BaseT(type) = TYPE_WORD

(* Where element idx of the array of entry e is: the same place for a  *)
(* formal bound to the array as for the array itself.                  *)
ElemAddrNext(e, idx) == e.bodyptr + idx + 1
ElemAddr(e, idx) == e.bodyptr + idx

(* History of a store to an array element: through a formal bound to   *)
(* another entry's body (aset, pend) or directly.                      *)
(* Ghost: each subscripted read or assignment of the interpreter whose *)
(* subscript is outside the array, with what it reported and did.      *)
LogIdx(before, after, name, idx, kind) ==
    LET ptr == Do("findintvar", before, <<name, 0>>).rv
        e == before.vars[ptr]
    IN IF after.halt # "none" \/ before.compile = 1 \/ ptr = 0 THEN after
       ELSE IF IsArrayT(e.type) = 0 \/ e.sz < 1 \/ (idx >= 0 /\ idx < e.sz) THEN after
       ELSE [after EXCEPT !.log.idx = @ \cup
               {[kind |-> kind, idx |-> idx, sz |-> e.sz, rc |-> after.rc,
                 err |-> IF Len(after.out) > Len(before.out)
                         THEN after.out[Len(before.out) + 1].v ELSE 0,
                 pushed |-> after.operandSP # before.operandSP,
                 same |-> after.vars = before.vars]}]

LogStore(before, after, ptr, idx, v) ==
    LET owner == VarOf(before.vars[ptr].bodyptr)
        others == {p \in after.log.pend : ~(p[1] = owner /\ p[2] = idx)}
    IN IF after.halt # "none" THEN after
       ELSE IF owner # ptr
       THEN [after EXCEPT !.log.aset = <<[owner |-> owner, idx |-> idx, v |-> v,
                                          before |-> before.vars[owner].body,
                                          after |-> after.vars[owner].body]>>,
                          !.log.pend = others \cup {<<owner, idx, v>>}]
       ELSE [after EXCEPT !.log.pend = others]

setintvar(s, name, idx, value) ==
    IF s.halt # "none" THEN s
    ELSE
    LET f == Do("findintvar", s, <<name, 0>>)
        ptr == f.rv
        local == f.rlocal
        e == s.vars[ptr]
        type == BaseT(e.type)
        rel == local = 1 /\ s.compilingsub = 1
    IN IF ptr = 0 THEN Rc(Do("error", s, <<ERR_VAR>>), 1)
       ELSE IF IsConstT(e.type) = 1 THEN Rc(Do("error", s, <<ERR_STCONST>>), 1)
       ELSE IF IsArrayT(e.type) = 0
       THEN IF idx # -1 THEN Rc(Do("error", s, <<ERR_SUBSCR>>), 1)
            ELSE IF s.compile = 1
            THEN Rc(Do("emit_imm", s, <<IF rel THEN (IF IsWordT(type) THEN "STRWORDIMM" ELSE "STRBYTEIMM")
                                 ELSE (IF IsWordT(type) THEN "STAWORDIMM" ELSE "STABYTEIMM"), e.val>>), 0)
            ELSE Rc([s EXCEPT !.vars[ptr].val = IF IsWordT(type) THEN value ELSE value % 256], 0)
       ELSE IF idx = -1 THEN Rc(Do("error", s, <<ERR_SUBSCR>>), 1)
       ELSE IF s.compile = 1
       THEN LET s1 == Do("emit", s, <<"SWAP">>)
                s2 == IF IsWordT(type) THEN Do("emit", emitldi(s1, 1), <<"LSH">>) ELSE s1
                s3 == emitldi(s2, e.bodyptr)
                s4 == IF e.sz = -1 THEN Do("emit", s3, <<"LDRWORD">>) ELSE s3
                s5 == Do("emit", s4, <<"ADD">>)
                st == IF rel /\ e.sz # -1
                      THEN (IF IsWordT(type) THEN "STRWORD" ELSE "STRBYTE")
                      ELSE (IF IsWordT(type) THEN "STAWORD" ELSE "STABYTE")
            IN Rc(Do("emit", s5, <<st>>), 0)
       ELSE IF idx < 0 \/ idx >= e.sz THEN Rc(Do("error", s, <<ERR_SUBSCR>>), 1)
       ELSE LET width == IF IsWordT(type) THEN SizeofInt ELSE 1
                s1 == Do("Poke", s, <<ElemAddr(e, idx), value, width>>)
            IN Rc(LogStore(s, s1, ptr, idx, IF width = 1 THEN value % 256 ELSE value), 0)

(* Result: the value or address in rv, the type in rtype *)
getintvar(s, name, idx, address) ==
    IF s.halt # "none" THEN s
    ELSE
    LET f == Do("findintvar", s, <<name, 0>>)
        ptr == f.rv
        local == f.rlocal
        e == s.vars[ptr]
        type == e.type
        rel == local = 1 /\ s.compilingsub = 1
        t == [s EXCEPT !.rtype = type]
    IN IF ptr = 0 THEN Rc(Do("error", s, <<ERR_VAR>>), 1)
       ELSE IF s.compiletimelookup = 1
       THEN Rc([t EXCEPT !.rv = StoredWord(s, e), !.compiletimelookup = 0], 0)
       ELSE IF IsArrayT(type) = 0
       THEN IF idx # -1 THEN Rc(Do("error", t, <<ERR_SUBSCR>>), 1)
            ELSE IF s.compile = 1
            THEN IF address = 1
                 THEN Rc(IF rel THEN Do("emit", emitldi(t, e.val), <<"RTOA">>) ELSE emitldi(t, e.val), 0)
                 ELSE Rc(Do("emit_imm", t, <<IF rel THEN (IF IsWordT(type) THEN "LDRWORDIMM" ELSE "LDRBYTEIMM")
                                      ELSE (IF IsWordT(type) THEN "LDAWORDIMM" ELSE "LDABYTEIMM"), e.val>>), 0)
            ELSE Rc([t EXCEPT !.rv = IF address = 1 THEN VarAddr(ptr) ELSE e.val], 0)
       ELSE LET addr == IF idx = -1 THEN 1 ELSE address
                i == IF idx = -1 THEN 0 ELSE idx
                t0 == IF idx = -1 /\ s.compile = 1 THEN emitldi(t, 0) ELSE t
            IN IF s.compile = 1
               THEN LET t1 == IF IsWordT(type) THEN Do("emit", emitldi(t0, 1), <<"LSH">>) ELSE t0
                        t2 == emitldi(t1, e.bodyptr)
                        t3 == IF e.sz = -1 THEN Do("emit", t2, <<"LDRWORD">>) ELSE t2 IN
                        Bind( Do("emit", t3, <<"ADD">>), LAMBDA t4 : LET
                        ld == IF rel /\ e.sz # -1
                              THEN (IF IsWordT(type) THEN "LDRWORD" ELSE "LDRBYTE")
                              ELSE (IF IsWordT(type) THEN "LDAWORD" ELSE "LDABYTE")
                    IN Rc(IF addr = 0 THEN Do("emit", t4, <<ld>>)
                          ELSE IF rel /\ e.sz # -1 THEN Do("emit", t4, <<"RTOA">>)
                          ELSE t4, 0))
               ELSE IF i < 0 \/ i >= e.sz THEN Rc(Do("error", t0, <<ERR_SUBSCR>>), 1)
               ELSE IF addr = 1 THEN Rc([t0 EXCEPT !.rv = e.bodyptr + i], 0)
               ELSE LET m == Do("Peek", t0, <<e.bodyptr + i>>)
                    IN IF m.ok THEN Rc([t0 EXCEPT !.rv = m.v], 0) ELSE Fault(t0)

(* ------------------------------------------------------------------ *)
(* The expression parser: E(), P(), subscript(), eval()                 *)
(* ------------------------------------------------------------------ *)
RECURSIVE E(_), EDrain(_), PVar(_), PCall(_)
RECURSIVE run(_, _)

TokChar(tok) == IF tok.s # <<>> THEN tok.s[1] ELSE ""

EDrain(s) ==
    IF s.halt # "none" THEN s
    ELSE IF top_operator_stack(s) # SENTINEL
    THEN LET s1 == Do("pop_operator", LogAccess(s, s.operatorSP + 1, s.operatorSP), <<>>)
         IN IF Failed(s1) THEN s1 ELSE EDrain(s1)
    ELSE Rc(LogAccess(s, s.operatorSP + 1, s.operatorSP), 0)

ELoop(s) ==
    IF s.halt # "none" THEN s
    ELSE LET op == binary(CurTok(s))
         IN IF op # ILLEGAL
            THEN     Bind( Do("push_operator", s, <<op>>), LAMBDA s1 :
                    IF Failed(s1) THEN s1
                    ELSE     Bind( Do("P", Adv(s1, 1), <<>>), LAMBDA s2 :
                            IF Failed(s2) THEN s2 ELSE Do("ELoop", s2, <<>>)))
            ELSE EDrain(s)

E(s) == LET s1 == Do("P", s, <<>>) IN IF Failed(s1) THEN s1 ELSE Do("ELoop", s1, <<>>)

subscript(s) ==
    IF s.halt # "none" THEN s
    ELSE LET s1 == Do("expect", Do("push_operator_stack", s, <<SENTINEL>>), <<"[">>)
         IN IF Failed(s1) THEN s1
            ELSE LET s2 == Do("eval", s1, <<0>>)
                     idx == s2.rv
                 IN IF Failed(s2) THEN s2
                    ELSE LET s3 == Do("expect", s2, <<"]">>)
                         IN IF Failed(s3) THEN s3
                            ELSE Rc([Do("pop_operator_stack", s3, <<>>) EXCEPT !.rv = idx], 0)

PGet(s, name, idx, addressmode) ==
    LET s1 == IF s.compile = 1
              THEN Do("getintvar", [s EXCEPT !.compiletimelookup = 1], <<name, idx, addressmode>>)
              ELSE s
    IN IF s.compile = 1 /\ Failed(s1) THEN s1
       ELSE IF s.compile = 1 /\ IsConstT(s1.rtype) = 1
       THEN Rc(Do("push_operand_stack", s1, <<s1.rv>>), 0)
       ELSE LET s2 == Do("getintvar", s1, <<name, idx, addressmode>>)
            IN IF Failed(s2) THEN s2
               ELSE IF s2.onlyconstants = 1 /\ IsConstT(s2.rtype) = 0
               THEN Rc(Do("error", s2, <<ERR_CONST>>), 1)
               ELSE IF s2.compile = 0 THEN Rc(Do("push_operand_stack", s2, <<s2.rv>>), 0)
               ELSE Rc(s2, 0)

(* History of a function invocation: the interpreter before it and     *)
(* after it, and the statements executed in between.                   *)
FnRecord(before, after, ev, lvl) ==
    [sp0 |-> before.returnSP, sp1 |-> after.returnSP,
     osp0 |-> before.operatorSP, osp1 |-> after.operatorSP,
     cur0 |-> before.current, cur1 |-> after.current,
     cnt0 |-> before.counter, cnt1 |-> after.counter,
     operand |-> after.retregister, ev |-> ev, lvl |-> lvl]

(* P() back from run(1): the caller's line, the three slots of the   *)
(* synthetic frame, the sentinel, and the return register as operand.  *)
PCallReturned(s, lvl, s4) ==
    IF s4.halt # "none" THEN s4
    ELSE LET s5 == [s4 EXCEPT !.current = s.current, !.counter = s.counter,
                              !.log.cs = IF @ # <<>> /\ @[Len(@)] = "fn"
                                         THEN SubSeq(@, 1, Len(@) - 1) ELSE @]
             s7 == Do("pop_operator_stack", Do("pop_return", Do("pop_return", Do("pop_return", s5, <<>>), <<>>), <<>>), <<>>)
             s8 == Do("push_operand_stack", s7, <<s7.retregister>>)
         IN Rc(IF s8.halt = "none"
               THEN [s8 EXCEPT !.log.fnlvl = s.log.fnlvl, !.log.ev = s.log.ev,
                               !.log.fn = <<FnRecord(s, s8, s4.log.ev, lvl)>>]
               ELSE s8, 0)

(* The function invocation f(args) inside an expression *)
PCall(s) ==
    IF s.compile = 1
    THEN LET s1 == Do("docall", Do("push_operator_stack", s, <<SENTINEL>>), <<>>)
         IN IF Failed(s1) THEN Rc(s1, 1) ELSE Rc(Do("pop_operator_stack", s1, <<>>), 0)
    ELSE LET s1 == Do("push_operator_stack", s, <<SENTINEL>>)
             s2 == Do("push_return", Do("push_return", Do("push_return", s1, <<CALLFRAME>>), <<-2>>), <<-1>>)
             s3 == Do("docall", [s2 EXCEPT !.log.cs = Append(@, "fn")], <<>>)
         IN IF Failed(s3) THEN Rc(s3, 1)
            ELSE Do("PCallReturned", s, <<Len(s3.log.frames), run([s3 EXCEPT !.log.fnlvl = Len(s3.log.frames),
                                              !.log.ev = <<>>], 1)>>)

PVar(s) ==
    LET amp == CurTok(s).t = "op" /\ CurTok(s).s = <<"&">> IN
        Bind(          IF amp THEN 1 ELSE 0, LAMBDA addressmode :
        Bind( IF amp THEN Adv(s, 1) ELSE s, LAMBDA s0 :
        Bind( CurTok(s0), LAMBDA t1 :
       IF t1.t # "id" THEN Rc(Do("error", s0, <<ERR_VAR>>), 1)
       ELSE     Bind( [Adv(s0, 1) EXCEPT !.readbuf = t1.s], LAMBDA s1 : LET
                t2 == CurTok(s1)
            IN IF IsSym(t2, "[")
               THEN LET s2 == Do("subscript", s1, <<>>)
                    IN IF Failed(s2) THEN Rc(Do("error", s2, <<ERR_SUBSCR>>), 1)
                       ELSE LogIdx(s2, Do("PGet", s2, <<t1.s, s2.rv, addressmode>>), t1.s, s2.rv,
                                   "read")
               ELSE IF IsSym(t2, "(")
               THEN IF s1.onlyconstants = 1 THEN Rc(Do("error", s1, <<ERR_CONST>>), 1)
                    ELSE IF addressmode = 1 THEN Rc(Do("error", s1, <<ERR_VAR>>), 1)
                    ELSE PCall(s1)
               ELSE Do("PGet", s1, <<t1.s, -1, addressmode>>)))))

P(s) ==
    IF s.halt # "none" THEN s
    ELSE     Bind(  CurTok(s), LAMBDA tok :
            IF tok.t = "eol" THEN Rc(Do("error", s, <<ERR_EXPR>>), 1)
            ELSE IF tok.t = "id" \/ (tok.t = "op" /\ tok.s = <<"&">>) THEN PVar(s)
            ELSE IF tok.t = "num" THEN Rc(Adv(Do("push_operand_stack", s, <<tok.v>>), 1), 0)
            ELSE IF IsSym(tok, "(")
            THEN LET s1 == E(Do("push_operator_stack", Adv(s, 1), <<SENTINEL>>))
                 IN IF Failed(s1) THEN s1
                    ELSE LET s2 == Do("expect", s1, <<")">>)
                         IN IF Failed(s2) THEN s2 ELSE Rc(Do("pop_operator_stack", s2, <<>>), 0)
            ELSE IF unary(tok) # ILLEGAL
            THEN Do("P", Adv(Do("push_operator_stack", s, <<unary(tok)>>), 1), <<>>)
            ELSE Rc(printchar(printchar(Do("error", s, <<ERR_EXTRA>>), " "), TokChar(tok)), 1))

eval(s, checkNoMore) ==
    IF s.halt # "none" THEN s
    ELSE IF CurTok(s).t = "eol" THEN Rc(Do("error", s, <<ERR_EXPR>>), 1)
    ELSE LET s1 == E(s)
         IN IF Failed(s1) THEN s1
            ELSE IF checkNoMore = 1 /\ ~IsSym(CurTok(s1), ";") /\ CurTok(s1).t # "eol"
            THEN Rc(print(printchar(Do("error", s1, <<ERR_EXTRA>>), " "), TokChar(CurTok(s1))), 1)
            ELSE Rc(pop_operand_stack(s1), 0)

(* ------------------------------------------------------------------ *)
(* createintvar()                                                       *)
(* ------------------------------------------------------------------ *)
TypeEnc(isconst, isarray, type) == isconst * 32 + isarray * 16 + type

civ_st_rel(s, type, i) ==
    IF type = TYPE_WORD
    THEN Do("emit", emitldi(s, s.rtSP - s.rtFP + 2 * i), <<"STRWORD">>)
    ELSE Do("emit", emitldi(s, s.rtSP - s.rtFP + i), <<"STRBYTE">>)

SkipComma(s) == IF s.halt = "none" /\ IsSym(CurTok(s), ",") THEN Adv(s, 1) ELSE s

(* The list initializer loop; the values of the body are returned in   *)
(* field rv as a sequence (interpreter), code is emitted (compiler).    *)
InitList(s, type, i, sz, acc) ==
    IF s.halt # "none" THEN s
    ELSE IF i >= sz THEN Rc([s EXCEPT !.rv = acc], 0)
    ELSE IF s.compile = 1
    THEN IF IsSym(CurTok(s), "}") THEN Rc([s EXCEPT !.rv = acc], 0)
         ELSE LET s1 == Do("eval", s, <<0>>)
              IN IF Failed(s1) THEN Rc(s1, 1)
                 ELSE Do("InitList", Do("SkipComma", civ_st_rel(s1, type, i), <<>>), <<type, i + 1, sz, acc>>)
    ELSE IF IsSym(CurTok(s), "}") THEN Do("InitList", s, <<type, i + 1, sz, Append(acc, 0)>>)
    ELSE LET s1 == Do("eval", s, <<0>>)
             val == IF type = TYPE_WORD THEN s1.rv ELSE s1.rv % 256
         IN IF Failed(s1) THEN Rc(s1, 1)
            ELSE Do("InitList", Do("SkipComma", s1, <<>>), <<type, i + 1, sz, Append(acc, val)>>)

(* The character codes of the letters used in string initializers *)
Letters == <<"a", "b", "c", "d", "e">>
CharCode(c) ==
    IF \E i \in 1..Len(Letters) : Letters[i] = c
    THEN 96 + (CHOOSE i \in 1..Len(Letters) : Letters[i] = c)
    ELSE 63

(* What a part of the arena holds that alloc1() handed out and nobody  *)
(* has written: alloc1() moves heap1Ptr and clears nothing.            *)
StaleValue(s) == IF s.ub = "benign" THEN 0 ELSE WildWord % 256

(* The string initializer in the interpreter: sz - 1 elements are       *)
(* written, the characters and then zeros; the last is not written.    *)
StrInitBody(s, type, chars, sz) ==
    [i \in 1..sz |->
        IF i = sz THEN StaleValue(s)
        ELSE IF i <= Len(chars) THEN CharCode(chars[i])
        ELSE 0]

(* The string initializer in the compiler: a store per character and   *)
(* one for the terminator, at most sz - 1 stores.                      *)
RECURSIVE StrInitCode(_, _, _, _, _)
StrInitCode(s, type, chars, i, sz) ==
    IF s.halt # "none" \/ i >= sz - 1 THEN s
    ELSE LET atquote == i >= Len(chars)
             s1 == civ_st_rel(emitldi(s, IF atquote THEN 0 ELSE CharCode(chars[i + 1])),
                              type, i)
         IN IF atquote THEN s1 ELSE StrInitCode(s1, type, chars, i + 1, sz)

(* createintvar() for an array declared with a string initializer *)
StrInitVar(s, name, tenc, type, sz) ==
    LET chars == CurTok(s).s
        width == IF type = TYPE_WORD THEN 2 ELSE 1
        toolong == Len(chars) > sz - 1
    IN IF s.compile = 1
       THEN LET c1 == rt_push_callstack(Do("alloc1", s, <<SizeofVarT + 2 * SizeofInt>>), sz * width)
                bodyptr == IF s.compilingsub = 1 THEN c1.rv - s.rtFP ELSE c1.rv + 1
                c2 == Do("emit", Do("emit", emitldi(c1, sz), <<"DEC">>), <<"DUP">>)
                c3 == Do("emit", emitldi(c2, 0), <<IF type = TYPE_WORD THEN "PSHWORD" ELSE "PSHBYTE">>)
                c4 == Do("emit", emitldi(c3, 0), <<"NEQL">>)
                c5 == Do("emit", Do("emit_imm", c4, <<"BRNCHIMM", c4.rtPC - 10>>), <<"DROP">>)
                c6 == StrInitCode(c5, type, chars, 0, sz)
            IN IF c6.halt # "none" THEN c6
               ELSE IF toolong THEN Rc(Do("error", c6, <<ERR_TOOLONG>>), 1)
               ELSE Rc(Do("LinkVar", Adv(c6, 1), <<VarEnt(key(name), tenc, 0, bodyptr, sz, <<>>)>>), 0)
       ELSE LET i1 == Do("alloc1", s, <<SizeofVarT + 2 * SizeofInt
                                   + sz * (IF type = TYPE_WORD THEN SizeofInt ELSE 1)>>)
                k == Len(i1.vars) + 1
            IN IF i1.halt # "none" THEN i1
               ELSE IF toolong THEN Rc(Do("error", i1, <<ERR_TOOLONG>>), 1)
               ELSE Rc(Do("LinkVar", Adv(i1, 1), <<VarEnt(key(name), tenc, 0, VarAddr(k) + 1, sz,
                                      StrInitBody(i1, type, chars, sz))>>), 0)

createintvar(s, name, type0, isarray, sz, value, bodyptr0) ==
    IF s.halt # "none" THEN s
    ELSE
    LET isconst == IF type0 = TYPE_CONST THEN 1 ELSE 0
        type == IF type0 = TYPE_CONST THEN TYPE_WORD ELSE type0
        width == IF type = TYPE_WORD THEN 2 ELSE 1
        tenc == TypeEnc(isconst, isarray, type)
    IN IF Do("findintvar", s, <<name, 1>>).rv # 0 THEN Rc(Do("error", s, <<ERR_REDEF>>), 1)
       ELSE IF sz < 1 THEN Rc(Do("error", s, <<ERR_DIM>>), 1)
       ELSE IF isarray = 0
       THEN IF s.compile = 1
            THEN LET s0 == Do("alloc1", s, <<SizeofVarT + SizeofInt>>)
                 IN IF isconst = 1
                    THEN Rc(Do("LinkVar", s0, <<VarEnt(key(name), tenc, value, 0, 0, <<>>)>>), 0)
                    ELSE     Bind( rt_push_callstack(s0, width), LAMBDA s1 : LET
                             addr == IF s.compilingsub = 1 THEN s1.rv - s.rtFP ELSE s1.rv + 1 IN
                             Bind( Do("emit", s1, <<IF type = TYPE_WORD THEN "PSHWORD" ELSE "PSHBYTE">>), LAMBDA s2 :
                            IF s2.halt # "none" THEN s2
                            ELSE Rc(Do("LinkVar", s2, <<VarEnt(key(name), tenc, addr, 0, 0, <<>>)>>), 0)))
            ELSE LET s0 == Do("alloc1", s, <<SizeofVarT + (IF type = TYPE_WORD THEN SizeofInt ELSE 1)>>)
                     v == IF type = TYPE_WORD THEN value ELSE value % 256
                 IN IF s0.halt # "none" THEN s0
                    ELSE Rc(Do("LinkVar", s0, <<VarEnt(key(name), tenc, v, 0, 0, <<>>)>>), 0)
       ELSE IF bodyptr0 # 0
       THEN LET s0 == Do("alloc1", s, <<SizeofVarT + 2 * SizeofInt>>)
            IN IF s0.halt # "none" THEN s0
               ELSE Rc(Do("LinkVar", s0, <<VarEnt(key(name), tenc, 0, bodyptr0, sz, <<>>)>>), 0)
       ELSE IF CurTok(s).t = "str" THEN StrInitVar(s, name, tenc, type, sz)
       ELSE
       LET s0 == IF IsSym(CurTok(s), "{") THEN Adv(s, 1) ELSE s
       IN IF s.compile = 1
          THEN     Bind( rt_push_callstack(Do("alloc1", s0, <<SizeofVarT + 2 * SizeofInt>>), sz * width), LAMBDA s1 : LET
                   bodyptr == IF s.compilingsub = 1 THEN s1.rv - s.rtFP ELSE s1.rv + 1 IN
                   Bind( Do("emit", Do("emit", emitldi(s1, sz), <<"DEC">>), <<"DUP">>), LAMBDA s2 : LET
                   s3 == Do("emit", emitldi(s2, 0), <<IF type = TYPE_WORD THEN "PSHWORD" ELSE "PSHBYTE">>)
                   s4 == Do("emit", emitldi(s3, 0), <<"NEQL">>)
                   s5 == Do("emit", Do("emit_imm", s4, <<"BRNCHIMM", s4.rtPC - 10>>), <<"DROP">>) IN
                   Bind( Do("InitList", s5, <<type, 0, sz, <<>>>>), LAMBDA s6 :
                  IF Failed(s6) THEN s6
                  ELSE IF ~IsSym(CurTok(s6), "}") THEN Rc(Do("error", s6, <<ERR_TOOLONG>>), 1)
                  ELSE Rc(Do("LinkVar", Adv(s6, 1), <<VarEnt(key(name), tenc, 0, bodyptr, sz, <<>>)>>), 0))))
          ELSE     Bind( Do("alloc1", s0, <<SizeofVarT + 2 * SizeofInt
                                    + sz * (IF type = TYPE_WORD THEN SizeofInt ELSE 1)>>), LAMBDA s1 :
                   Bind( Do("InitList", s1, <<type, 0, sz, <<>>>>), LAMBDA s2 : LET
                   k == Len(s2.vars) + 1
               IN IF Failed(s2) THEN s2
                  ELSE IF ~IsSym(CurTok(s2), "}") THEN Rc(Do("error", s2, <<ERR_TOOLONG>>), 1)
                  ELSE Rc(Do("LinkVar", Adv(s2, 1), <<VarEnt(key(name), tenc, 0, VarAddr(k) + 1, sz, s2.rv)>>), 0)))

(* ------------------------------------------------------------------ *)
(* The program store: lines is the list from program in list order; a   *)
(* lineofcode pointer is an index into it, 0 is NULL.                   *)
(* ------------------------------------------------------------------ *)
NextLine(s, l) == IF l >= 1 /\ l < Len(s.lines) /\ s.program # 0 THEN l + 1 ELSE 0

(* Sets counter and current as the loop of findline() leaves them *)
findline(s, linenum) ==
    IF s.halt # "none" THEN s
    ELSE LET n == IF s.program = 0 THEN 0 ELSE Len(s.lines)
         IN IF linenum >= 1 /\ linenum <= n
            THEN [s EXCEPT !.counter = linenum, !.current = linenum]
            ELSE [s EXCEPT !.counter = n + 1, !.current = 0]

(* Frees every line and every node of the list *)
new(s) ==
    IF s.halt # "none" THEN s
    ELSE [s EXCEPT !.freed = IF s.program = 0 THEN @ ELSE 1..Len(s.lines),
                   !.program = 0, !.current = 0]

backtotop(s, linenum, oldTxtPtr) ==
    IF s.halt # "none" THEN s
    ELSE IF linenum = -1
    THEN [s EXCEPT !.counter = -1, !.current = 0, !.txtPtr = oldTxtPtr]
    ELSE LET s1 == findline(s, linenum + 1)
             s2 == [s1 EXCEPT !.counter = @ - 1]
         IN IF s2.current = 0 THEN EXIT(s2, 99)
            ELSE [s2 EXCEPT !.txtPtr = oldTxtPtr]

(* ------------------------------------------------------------------ *)
(* docall(), doreturn()                                                 *)
(* ------------------------------------------------------------------ *)
IsPrefix(a, b) == Len(a) <= Len(b) /\ SubSeq(b, 1, Len(a)) = a

(* compareUntil(p, readbuf, '(') = 0 for the text of a sub line *)
SubLineMatches(line, name) ==
    /\ Len(line) >= 3
    /\ IsKw(line[1], TOK_SUBR)
    /\ line[2].t = "id"
    /\ IsSym(line[3], "(")
    /\ IsPrefix(line[2].s, name)

LineTok(line, q) == IF q >= 1 /\ q <= Len(line) THEN line[q] ELSE EOL

RetErr(s, origcounter, errcode) ==
    IF s.halt # "none" THEN s ELSE Rc(Do("error", [s EXCEPT !.counter = origcounter], <<errcode>>), RET_ERROR)

(* c: l the sub line, q the position in it, oldvarslocal, newvarslocal, *)
(* argbytes, local, origcounter                                         *)
DoFormals(s, c, q, st) ==
    IF s.halt # "none" THEN s
    ELSE
    LET line == s.lines[c.l].line
        t0 == LineTok(line, q)
        type == IF IsKw(t0, TOK_WORD) THEN TYPE_WORD ELSE TYPE_BYTE
        t1 == LineTok(line, q + 1)
        name == IF t1.t = "id" THEN t1.s ELSE <<>>
        q1 == IF t1.t = "id" THEN q + 2 ELSE q + 1
        arraymode == IsSym(LineTok(line, q1), "[")
        q2 == IF arraymode THEN q1 + 2 ELSE q1 IN
        Bind( IF IsSym(LineTok(line, q2), ",") THEN q2 + 1 ELSE q2, LAMBDA q3 :
       IF IsSym(t0, ")") THEN Rc([s EXCEPT !.rv = st.argbytes], RET_SUCCESS)
       ELSE IF ~(IsKw(t0, TOK_WORD) \/ IsKw(t0, TOK_BYTE)) THEN Rc(Do("error", s, <<ERR_ARG>>), RET_ERROR)
       ELSE IF arraymode /\ ~IsSym(LineTok(line, q1 + 1), "]") THEN Rc(Do("error", s, <<ERR_ARG>>), RET_ERROR)
       ELSE IF CurTok(s).t = "eol" \/ IsSym(CurTok(s), ")") THEN Do("RetErr", s, <<c.origcounter, ERR_ARG>>)
       ELSE IF ~arraymode
       THEN     Bind( Do("eval", IF s.compile = 0 THEN [s EXCEPT !.varslocal = c.oldvarslocal] ELSE s, <<0>>), LAMBDA s1 : LET
                arg == s1.rv
            IN IF Failed(s1) THEN Do("RetErr", s1, <<c.origcounter, ERR_ARG>>)
               ELSE IF s.compile = 1
               THEN Do("DoFormals", Do("SkipComma", Do("emit", s1, <<IF type = TYPE_WORD THEN "PSHWORD" ELSE "PSHBYTE">>), <<>>), <<c, q3, [st EXCEPT !.argbytes = (@ + IF type = TYPE_WORD THEN 2 ELSE 1) % 256]>>)
               ELSE Do("DoFormals", Do("SkipComma", Do("createintvar", [s1 EXCEPT !.varslocal = c.newvarslocal], <<name, type, 0, 1, arg, 0>>), <<>>), <<c, q3, st>>))
       ELSE IF s.compile = 0
       THEN LET name2 == IF CurTok(s).t = "id" THEN CurTok(s).s ELSE <<>> IN
                Bind( [(IF CurTok(s).t = "id" THEN Adv(s, 1) ELSE s)
                         EXCEPT !.varslocal = c.oldvarslocal], LAMBDA s1 :
                Bind(Do("findintvar", s1, <<name2, st.local>>), LAMBDA f :
                Bind(    s1.vars[f.rv], LAMBDA array : LET
                j == (array.type \div 16) % 16
            IN IF f.rv = 0 THEN Do("RetErr", s1, <<c.origcounter, ERR_VAR>>)
               ELSE IF BaseT(array.type) # type \/ j = 0 THEN Do("RetErr", s1, <<c.origcounter, ERR_TYPE>>)
               ELSE Do("DoFormals", Do("SkipComma", Do("createintvar", [s1 EXCEPT !.varslocal = c.newvarslocal], <<name, type, j, array.sz, 0, array.bodyptr>>), <<>>), <<c, q3, [st EXCEPT !.local = f.rlocal]>>))))
       ELSE     Bind( Do("eval", s, <<0>>), LAMBDA s1 :
               IF Failed(s1) THEN Do("RetErr", s1, <<c.origcounter, ERR_ARG>>)
               ELSE Do("DoFormals", Do("SkipComma", Do("emit", s1, <<"PSHWORD">>), <<>>), <<c, q3, [st EXCEPT !.argbytes = (@ + 2) % 256]>>)))

(* The variable list as names and types, in list order *)
VarSnap(s) == [i \in 1..Len(s.vars) |-> <<s.vars[i].name, s.vars[i].type>>]

(* History of the call being made: what the caller had, for comparison *)
(* when the matching return is executed.                               *)
CallRecord(s, spBefore, varsBefore) ==
    [sp |-> spBefore, vars |-> varsBefore, txt |-> s.txtPtr, level |-> Len(s.log.frames) + 1,
     cleared |-> FALSE]

docall(s) ==
    IF s.halt # "none" THEN s
    ELSE
    LET origcounter == s.counter
        callname == s.readbuf
        n == IF s.program = 0 THEN 0 ELSE Len(s.lines)
        matches == {l \in 1..n : SubLineMatches(s.lines[l].line, callname)}
        l == MinOf(matches)
        scanned == IF n = 0 THEN s ELSE [s EXCEPT !.skipFlag = 0]
    IN IF matches = {} THEN Do("RetErr", scanned, <<origcounter, ERR_NOSUB>>)
       ELSE
       LET s1 == [scanned EXCEPT !.counter = IF s.compile = 0 THEN l - 1 ELSE @] IN
           Bind( Do("expect", s1, <<"(">>), LAMBDA s2 : LET
           oldvarslocal == s2.varslocal
           s3 == IF s.compile = 0
                 THEN Do("vars_markcallframe", Do("push_return", Do("push_return", s2, <<CALLFRAME>>), <<origcounter>>), <<>>)
                 ELSE s2
           c == [l |-> l, oldvarslocal |-> oldvarslocal, newvarslocal |-> s3.varslocal,
                 origcounter |-> origcounter] IN
           Bind( Do("DoFormals", s3, <<c, 4, [argbytes |-> 0, local |-> 0]>>), LAMBDA s4 : LET
           argbytes == s4.rv IN
           Bind( Do("expect", s4, <<")">>), LAMBDA s5 :
          IF Failed(s2) THEN Rc([s2 EXCEPT !.counter = IF s2.halt = "none" THEN origcounter ELSE @], RET_ERROR)
          ELSE IF Failed(s4) THEN s4
          ELSE IF Failed(s5) THEN Rc([s5 EXCEPT !.counter = IF s5.halt = "none" THEN origcounter ELSE @], RET_ERROR)
          ELSE IF s.compile = 1
          THEN     Bind( Do("emit_imm", s5, <<"JSRIMM", 65535>>), LAMBDA s6 :
                   Bind( [s6 EXCEPT !.calls = Append(@, [name |-> callname, addr |-> s6.rtPC - 2]),
                                   !.log.bind = @ \cup {[addr |-> s6.rtPC - 2, line |-> l]}], LAMBDA s7 :
                  Rc(IF argbytes # 0 THEN Do("emit", emitldi(s7, argbytes), <<"DISCARD">>) ELSE s7,
                     RET_SUCCESS)))
          ELSE     Bind( Do("push_return", s5, <<s5.txtPtr>>), LAMBDA s6 :
                   Bind( IF s6.halt = "none"
                         THEN [s6 EXCEPT !.current = NextLine(s6, l), !.counter = @ + 1,
                                         !.log.frames = Append(@, CallRecord(s5, s2.returnSP, VarSnap(s2))),
                                         !.log.cs = Append(@, "call")]
                         ELSE s6, LAMBDA s7 :
                  IF s7.halt # "none" THEN s7
                  ELSE IF s7.current = 0 THEN Fault(s7)
                  ELSE Rc([s7 EXCEPT !.txtPtr = TxtAddr(s7.current, 1)], RET_SUCCESS))))))

(* Ghost: the constructs opened and not yet closed, innermost last;    *)
(* a return closes everything up to and including the innermost call.  *)
PopToCall(cs) ==
    LET ks == {k \in 1..Len(cs) : cs[k] = "call"}
    IN IF ks = {} THEN <<>> ELSE SubSeq(cs, 1, MaxOf(ks) - 1)

(* The slot of the first CALLFRAME above returnSP, RETSTACKSZ if none *)
FindCallFrame(s) ==
    LET ps == {p \in (s.returnSP + 1)..(RETSTACKSZ - 1) : s.return_stack[p] = CALLFRAME}
    IN IF ps = {} THEN RETSTACKSZ ELSE MinOf(ps)

(* History of the return just executed, against the record of its call *)
RetRecord(before, after, retvalue) ==
    LET fr == before.log.frames[Len(before.log.frames)]
        callee == {before.vars[i].name :
                     i \in {j \in 1..Len(before.vars) : j > Len(fr.vars) + 1}}
        callernames == {fr.vars[i][1] : i \in 1..Len(fr.vars)}
    IN [spCall |-> fr.sp, sp |-> after.returnSP, value |-> retvalue,
        reg |-> after.retregister, varsCall |-> fr.vars, vars |-> VarSnap(after),
        txtCall |-> fr.txt, txt |-> after.txtPtr, halt |-> after.halt,
        cleared |-> fr.cleared, locals |-> Cardinality(callee),
        visible |-> {nm \in callee \ callernames : Do("findintvar", after, <<nm, 0>>).rv # 0}]

doreturn(s, retvalue) ==
    IF s.halt # "none" THEN s
    ELSE IF s.compile = 1 THEN Rc(Do("emit", Do("emit", s, <<"FPTOSP">>), <<"RTS">>), RET_SUCCESS)
    ELSE LET p == FindCallFrame(s)
         IN IF p = RETSTACKSZ THEN Rc(Do("error", s, <<ERR_STACK>>), RET_ERROR)
            ELSE LET s1 == [s EXCEPT !.returnSP = p, !.retregister = retvalue]
                     s2 == Do("vars_deletecallframe", s1, <<>>) IN
                     Bind( Do("backtotop", s2, <<RS(s2, p - 1), RS(s2, p - 2)>>), LAMBDA s3 :
                     Bind( IF s2.halt = "none" /\ s.log.frames # <<>>
                           THEN [s3 EXCEPT !.log.ret = <<RetRecord(s, s3, retvalue)>>,
                                           !.log.frames = SubSeq(@, 1, Len(@) - 1)]
                           ELSE s3, LAMBDA s4 : LET
                     s5 == IF s4.log.fnlvl # 0
                           THEN [s4 EXCEPT !.log.ev =
                                   Append(@, [tok |-> 0, lvl |-> Len(s.log.frames),
                                              val |-> retvalue])]
                           ELSE s4
                 IN Rc([s5 EXCEPT !.log.cs = PopToCall(@)], RET_SUCCESS)))

(* ------------------------------------------------------------------ *)
(* if / else / endif                                                    *)
(* ------------------------------------------------------------------ *)
UChar(x) == x % 256

(* status pushed by doif() and dowhile() in the interpreter *)
CondStatus(s, arg) == IF s.skipFlag = 1 THEN 0 ELSE IF UChar(arg) = 0 THEN 1 ELSE 2
CondSkip(s, arg) == IF s.skipFlag = 0 /\ UChar(arg) = 0 THEN 1 ELSE s.skipFlag

doif(s, arg) ==
    IF s.halt # "none" THEN s
    ELSE LET s1 == Do("push_return", s, <<IFFRAME>>)
         IN IF s.compile = 1
            THEN LET s2 == Do("emit", s1, <<"NOT">>)
                     s3 == Do("push_return", s2, <<s2.rtPC + 1>>)
                 IN Do("push_return", Do("emit_imm", s3, <<"BRNCHIMM", 65535>>), <<0>>)
            ELSE LET s2 == Do("push_return", s1, <<CondStatus(s, arg)>>)
                     s3 == IF s2.halt = "none" THEN [s2 EXCEPT !.skipFlag = CondSkip(s, arg)] ELSE s2
                 IN Do("push_return", s3, <<0>>)

(* return_stack[i] = v, as the code writes it *)
SetRS(s, i, v) ==
    IF s.halt # "none" THEN s
    ELSE IF i >= 0 /\ i <= RETSTACKSZ - 1 THEN [s EXCEPT !.return_stack[i] = v]
    ELSE IF s.ub = "benign" THEN s ELSE Fault(s)

doelse(s) ==
    IF s.halt # "none" THEN s
    ELSE IF RS(s, s.returnSP + 3) # IFFRAME THEN Rc(Do("error", s, <<ERR_NOIF>>), RET_ERROR)
    ELSE IF s.compile = 1
    THEN LET s1 == SetRS(s, s.returnSP + 1, s.rtPC + 1)
             s2 == Do("emit_imm", s1, <<"JMPIMM", 65535>>)
             s3 == Do("emit_fixup", s2, <<RS(s2, s2.returnSP + 2), s2.rtPC>>)
         IN Rc(SetRS(s3, s3.returnSP + 2, 0), RET_SUCCESS)
    ELSE Rc([s EXCEPT !.skipFlag = IF RS(s, s.returnSP + 2) = 2 THEN 1
                                   ELSE IF RS(s, s.returnSP + 2) = 1 THEN 0 ELSE @],
            RET_SUCCESS)

doendif(s) ==
    IF s.halt # "none" THEN s
    ELSE IF RS(s, s.returnSP + 3) # IFFRAME THEN Rc(Do("error", s, <<ERR_NOIF>>), RET_ERROR)
    ELSE LET s1 == IF s.compile = 1
                   THEN LET a == IF RS(s, s.returnSP + 2) # 0
                                 THEN Do("emit_fixup", s, <<RS(s, s.returnSP + 2), s.rtPC>>) ELSE s
                        IN IF RS(s, s.returnSP + 1) # 0
                           THEN Do("emit_fixup", a, <<RS(s, s.returnSP + 1), s.rtPC>>) ELSE a
                   ELSE IF RS(s, s.returnSP + 2) # 0 THEN [s EXCEPT !.skipFlag = 0] ELSE s
         IN Rc(Do("pop_return", Do("pop_return", Do("pop_return", s1, <<>>), <<>>), <<>>), RET_SUCCESS)

(* ------------------------------------------------------------------ *)
(* while / endwhile                                                     *)
(* ------------------------------------------------------------------ *)
(* Ghost: the return-stack depth at which each while guard was evaluated *)
LogWh(s, startTxtPtr) ==
    IF s.compile = 1 THEN s
    ELSE [s EXCEPT !.log.wh = @ \cup {[line |-> s.counter, txt |-> startTxtPtr,
                                       sp |-> s.returnSP]}]

dowhile(s, startTxtPtr, arg) ==
    IF s.halt # "none" THEN s
    ELSE LET s1 == Do("push_return", s, <<WHILEFRAME>>)
         IN IF s.compile = 1
            THEN LET s2 == Do("emit", Do("push_return", s1, <<s1.rtPCBeforeEval>>), <<"NOT">>)
                     s3 == Do("push_return", s2, <<s2.rtPC + 1>>)
                 IN Do("push_return", Do("emit_imm", s3, <<"BRNCHIMM", 65535>>), <<0>>)
            ELSE LET s2 == Do("push_return", s1, <<CondStatus(s, arg)>>)
                     s3 == IF s2.halt = "none" THEN [s2 EXCEPT !.skipFlag = CondSkip(s, arg)] ELSE s2
                 IN Do("push_return", Do("push_return", s3, <<s3.counter>>), <<startTxtPtr>>)

(* endwhile that leaves the frame on the return stack when it loops back *)
doendwhile_keep(s) ==
    LET st == RS(s, s.returnSP + 3)
    IN IF st = 2
       THEN Rc(Do("backtotop", s, <<RS(s, s.returnSP + 2), RS(s, s.returnSP + 1)>>), RET_SUCCESS)
       ELSE Rc(Do("pop_return", Do("pop_return", Do("pop_return", Do("pop_return", IF st = 1 THEN [s EXCEPT !.skipFlag = 0] ELSE s, <<>>), <<>>), <<>>), <<>>), RET_SUCCESS)

doendwhile(s) ==
    IF s.halt # "none" THEN s
    ELSE IF RS(s, s.returnSP + 4) # WHILEFRAME THEN Rc(Do("error", s, <<ERR_NOWHILE>>), RET_ERROR)
    ELSE LET st == RS(s, s.returnSP + 3)
             s1 == IF s.compile = 1
                   THEN LET a == Do("emit_imm", s, <<"JMPIMM", st>>)
                        IN Do("emit_fixup", a, <<RS(s, s.returnSP + 2), a.rtPC>>)
                   ELSE IF st = 0 THEN s
                   ELSE IF st = 1 THEN [s EXCEPT !.skipFlag = 0]
                   ELSE IF st = 2 THEN Do("backtotop", s, <<RS(s, s.returnSP + 2), RS(s, s.returnSP + 1)>>)
                   ELSE EXIT(s, 99)
         IN Rc(Do("pop_return", Do("pop_return", Do("pop_return", Do("pop_return", s1, <<>>), <<>>), <<>>), <<>>), RET_SUCCESS)

(* ------------------------------------------------------------------ *)
(* endfor                                                               *)
(* ------------------------------------------------------------------ *)
(* endfor that tests the loop variable against the limit with <= *)
doendfor_late(s) ==
    LET var == RS(s, s.returnSP + 1)
        val == Do("Peek", s, <<var>>).v
    IN IF val <= RS(s, s.returnSP + 2)
       THEN Rc(Do("backtotop", Do("Poke", s, <<var, val + 1, SizeofInt>>), <<RS(s, s.returnSP + 4), RS(s, s.returnSP + 3)>>), RET_SUCCESS)
       ELSE Rc(Do("pop_return", Do("pop_return", Do("pop_return", Do("pop_return", Do("pop_return", s, <<>>), <<>>), <<>>), <<>>), <<>>), RET_SUCCESS)

doendfor(s) ==
    IF s.halt # "none" THEN s
    ELSE
    LET tag == RS(s, s.returnSP + 5)
        type == IF tag = FORFRAME_W THEN TYPE_WORD ELSE TYPE_BYTE
        var == RS(s, s.returnSP + 1)
        m == Do("Peek", s, <<var>>)
        val == IF type = TYPE_WORD THEN m.v ELSE m.v % 256
        rel == RS(s, s.returnSP + 4) # 0
        w == type = TYPE_WORD
        unwind(t) == Rc(Do("pop_return", Do("pop_return", Do("pop_return", Do("pop_return", Do("pop_return", t, <<>>), <<>>), <<>>), <<>>), <<>>),
                        RET_SUCCESS)
    IN IF tag # FORFRAME_W /\ tag # FORFRAME_B THEN Rc(Do("error", s, <<ERR_NOFOR>>), RET_ERROR)
       ELSE IF s.compile = 1
       THEN LET s1 == Do("emit", Do("emit", Do("emit", s, <<"POPWORD">>), <<"DUP">>), <<"PSHWORD">>)
                s2 == Do("emit_imm", s1, <<IF rel THEN (IF w THEN "LDRWORDIMM" ELSE "LDRBYTEIMM")
                                   ELSE (IF w THEN "LDAWORDIMM" ELSE "LDABYTEIMM"), RS(s, s.returnSP + 2)>>)
                s3 == Do("emit", Do("emit", s2, <<"INC">>), <<"DUP">>)
                s4 == Do("emit_imm", s3, <<IF rel THEN (IF w THEN "STRWORDIMM" ELSE "STRBYTEIMM")
                                   ELSE (IF w THEN "STAWORDIMM" ELSE "STABYTEIMM"), RS(s, s.returnSP + 2)>>)
                s5 == Do("emit_imm", Do("emit", s4, <<"GTE">>), <<"BRNCHIMM", RS(s, s.returnSP + 3)>>)
            IN unwind(Do("emit", Do("emit", s5, <<"POPWORD">>), <<"DROP">>))
       ELSE IF ~m.ok THEN Fault(s)
       ELSE IF val < RS(s, s.returnSP + 2)
       THEN Rc(Do("backtotop", Do("Poke", s, <<var, val + 1, IF w THEN SizeofInt ELSE 1>>), <<RS(s, s.returnSP + 4), RS(s, s.returnSP + 3)>>), RET_SUCCESS)
       ELSE unwind(s)

(* ------------------------------------------------------------------ *)
(* assignorcreate(): declarations, assignments and the for statement    *)
(* ------------------------------------------------------------------ *)
(* History of a declaration: was the name already declared in the      *)
(* scope (after the last call-frame marker), and what came of it.      *)
(* Ghost: the dimension a declaration's subscript evaluated to, and    *)
(* what the declaration reported and did to the variable list.         *)
LogDim(before, after, isarray, dim) ==
    IF after.halt # "none" THEN after
    ELSE [after EXCEPT !.log.dim =
            <<[isarray |-> isarray, dim |-> dim, rc |-> after.rc,
               same |-> after.vars = before.vars,
               err |-> IF Len(after.out) > Len(before.out)
                       THEN after.out[Len(before.out) + 1].v ELSE 0]>>]

LogDecl(before, after, name) ==
    IF after.halt # "none" THEN after
    ELSE [after EXCEPT !.log.decl =
            <<[dup |-> \E i \in (LastMarker(before.vars) + 1)..Len(before.vars) :
                         before.vars[i].name = key(name),
               rc |-> after.rc,
               same |-> after.vars = before.vars,
               redef |-> Len(after.out) = Len(before.out) + 1
                         /\ after.out[Len(after.out)] = Item("err", ERR_REDEF, "redef"),
               level |-> Len(before.log.frames),
               returned |-> before.log.ret # <<>>]>>]

ForEntry(s, name, i, k) ==
    LET s1 == Do("getintvar", IF s.compile = 1 THEN [s EXCEPT !.compiletimelookup = 1] ELSE s, <<name, i, 1>>)
        j == s1.rv
        s2 == Do("push_return", s1, <<IF IsWordT(s1.rtype) THEN FORFRAME_W ELSE FORFRAME_B>>)
    IN IF Failed(s1) THEN Rc(s1, RET_ERROR)
       ELSE IF s.compile = 1
       THEN LET local == Do("findintvar", s2, <<name, 0>>).rlocal
                s3 == Do("push_return", s2, <<Bool(local = 1 /\ s2.compilingsub = 1)>>)
                s4 == Do("emit", s3, <<"PSHWORD">>)
                s5 == Do("push_return", s4, <<s4.rtPC>>)
            IN Rc(Do("push_return", Do("push_return", s5, <<j>>), <<0>>), RET_SUCCESS)
       ELSE Rc(Do("push_return", Do("push_return", Do("push_return", Do("push_return", s2, <<s2.counter>>), <<s2.txtPtr>>), <<k>>), <<j>>),
               RET_SUCCESS)

assignorcreate(s, mode) ==
    IF s.halt # "none" THEN s
    ELSE
    LET oldcompile == s.compile
        tok == CurTok(s)
        name == tok.s
        s0 == Adv(s, 1) IN
        Bind(      IF IsSym(CurTok(s0), "[") THEN 1 ELSE 0, LAMBDA isarray : LET
        decl == mode \in {WORD_MODE, BYTE_MODE} IN
        Bind( IF isarray = 0 THEN [s0 EXCEPT !.rv = 0]
              ELSE IF decl
              THEN LET a == Do("subscript", [s0 EXCEPT !.onlyconstants = 1, !.compile = 0], <<>>)
                   IN IF a.halt = "none" THEN [a EXCEPT !.onlyconstants = 0, !.compile = oldcompile] ELSE a
              ELSE Do("subscript", s0, <<>>), LAMBDA s1 :
        Bind( IF isarray = 1 THEN s1.rv ELSE 0, LAMBDA i0 :
        Bind( Do("expect", s1, <<"=">>), LAMBDA s2 : LET
        s3 == IF mode = CONST_MODE /\ s2.halt = "none" THEN [s2 EXCEPT !.compile = 0] ELSE s2
        evals == isarray = 0 \/ mode = LET_MODE \/ mode = FOR_MODE IN
        Bind( IF evals THEN Do("eval", s3, <<IF mode # FOR_MODE THEN 1 ELSE 0>>) ELSE s3, LAMBDA s4 : LET
        j == IF evals THEN s4.rv ELSE 0 IN
        Bind( IF s4.halt = "none" THEN [s4 EXCEPT !.compile = oldcompile] ELSE s4, LAMBDA s5 : LET
        type == IF mode = CONST_MODE THEN TYPE_CONST
                ELSE IF mode = WORD_MODE THEN TYPE_WORD ELSE TYPE_BYTE IN
        Bind(IF mode \in {LET_MODE, FOR_MODE}
             THEN (IF isarray = 0 THEN -1 ELSE i0)
             ELSE (IF i0 = 0 THEN 1 ELSE i0), LAMBDA i :
        Bind( IF mode \in {LET_MODE, FOR_MODE}
              THEN (IF isarray = 1 THEN LogIdx(s5, setintvar(s5, name, i, j), name, i, "write")
                    ELSE setintvar(s5, name, i, j))
              ELSE LogDim(s5, LogDecl(s5, Do("createintvar", s5, <<name, type, isarray, i, j, 0>>),
                                      name), isarray, i0), LAMBDA s6 :
       IF tok.t # "id" THEN Rc(Do("error", s, <<ERR_VAR>>), RET_ERROR)
       ELSE IF isarray = 1 /\ Failed(s1) THEN Rc(s1, RET_ERROR)
       ELSE IF Failed(s2) THEN Rc(s2, RET_ERROR)
       ELSE IF evals /\ Failed(s4)
       THEN Rc(IF s4.halt = "none" THEN [s4 EXCEPT !.compile = 1] ELSE s4, RET_ERROR)
       ELSE IF Failed(s6) THEN Rc(s6, RET_ERROR)
       ELSE IF mode # FOR_MODE THEN Rc(s6, RET_SUCCESS)
       ELSE     Bind( Do("expect", s6, <<":">>), LAMBDA s7 :
                Bind( Do("eval", s7, <<1>>), LAMBDA s8 :
               IF Failed(s7) THEN Rc(s7, RET_ERROR)
               ELSE IF Failed(s8) THEN Rc(s8, RET_ERROR)
               ELSE ForEntry(s8, name, i, s8.rv)))))))))))

(* ------------------------------------------------------------------ *)
(* sub / endsub                                                         *)
(* ------------------------------------------------------------------ *)
(* a formal added without adjusting the formals before it *)
BumpFormals_none(s, by) == s

BumpFormals(s, by) ==
    IF s.varslocal = 0 THEN s
    ELSE [s EXCEPT !.vars =
            [n \in 1..Len(s.vars) |->
               IF n >= s.varslocal /\ s.vars[n].name[1] # "-"
               THEN IF IsArrayT(s.vars[n].type) = 1
                    THEN [s.vars[n] EXCEPT !.bodyptr = @ + by]
                    ELSE [s.vars[n] EXCEPT !.val = @ + by]
               ELSE s.vars[n]]]

SubFormals(s) ==
    IF s.halt # "none" THEN s
    ELSE
    LET t0 == CurTok(s)
        type == IF IsKw(t0, TOK_WORD) THEN TYPE_WORD ELSE TYPE_BYTE
        s1 == Adv(s, 1)
        name == IF CurTok(s1).t = "id" THEN CurTok(s1).s ELSE <<>> IN
        Bind( IF CurTok(s1).t = "id" THEN Adv(s1, 1) ELSE s1, LAMBDA s2 :
        Bind(        IsSym(CurTok(s2), "["), LAMBDA arraymode : LET
        s3 == IF arraymode THEN Adv(s2, 2) ELSE s2 IN
        Bind( Do("alloc1", BumpFormals(s3, IF arraymode \/ type = TYPE_WORD THEN 2 ELSE 1), <<SizeofVarT + (IF arraymode THEN 2 * SizeofInt ELSE SizeofInt)>>), LAMBDA s4 : LET
        v == IF arraymode THEN VarEnt(key(name), TypeEnc(0, 1, type), 0, 4, -1, <<>>)
             ELSE VarEnt(key(name), TypeEnc(0, 0, type), 4, 0, 0, <<>>)
    IN IF IsSym(t0, ")") THEN Rc(s, RET_SUCCESS)
       ELSE IF ~(IsKw(t0, TOK_WORD) \/ IsKw(t0, TOK_BYTE)) THEN Rc(Do("error", s, <<ERR_ARG>>), RET_ERROR)
       ELSE IF arraymode /\ ~IsSym(TokAt(s2, s2.txtPtr + 1), "]")
       THEN Rc(Do("error", s2, <<ERR_ARG>>), RET_ERROR)
       ELSE IF s4.halt # "none" THEN s4
       ELSE Do("SubFormals", Do("SkipComma", Do("LinkVar", s4, <<v>>), <<>>), <<>>))))

dosubr(s) ==
    IF s.halt # "none" THEN s
    ELSE IF s.compile = 0 THEN Rc(Do("error", s, <<ERR_RUNSUB>>), RET_ERROR)
    ELSE LET s1 == print(print(print([s EXCEPT !.compilingsub = 1], "["), "sub"), "]")
             s2 == [s1 EXCEPT !.subs = Append(@, [name |-> s.readbuf, addr |-> s.rtPC]),
                             !.log.defs = @ \cup {[line |-> s.current, addr |-> s.rtPC]}]
             s3 == Do("emit", Do("vars_markcallframe", s2, <<>>), <<"SPTOFP">>) IN
             Bind( Do("expect", IF s3.halt = "none" THEN [s3 EXCEPT !.rtFP = s3.rtSP] ELSE s3, <<"(">>), LAMBDA s4 :
            IF Failed(s4) THEN Rc(s4, RET_ERROR)
            ELSE     Bind( Do("SubFormals", s4, <<>>), LAMBDA s5 :
                    IF Failed(s5) THEN s5
                    ELSE     Bind( Do("expect", s5, <<")">>), LAMBDA s6 :
                            IF Failed(s6) THEN Rc(s6, RET_ERROR) ELSE Rc(s6, RET_SUCCESS))))

doendsubr(s) ==
    IF s.halt # "none" THEN s
    ELSE LET s1 == IF s.compile = 1
                   THEN emitldi(Do("vars_deletecallframe", [s EXCEPT !.rtSP = s.rtFP,
                                                              !.compilingsub = 0], <<>>), 0)
                   ELSE s
         IN Rc(Do("doreturn", s1, <<0>>), RET_SUCCESS)

(* ------------------------------------------------------------------ *)
(* run(): the loop over the lines of the program.  hostStack holds the  *)
(* activations of run() under the parseline() being executed, each with *)
(* the statement that called it.                                        *)
(* ------------------------------------------------------------------ *)
Fuel == 16

Return(s, r) == IF s.halt = "none" THEN [s EXCEPT !.pc = "ret", !.status = r] ELSE s
Continue(s) == IF s.halt = "none" THEN [s EXCEPT !.pc = "parse"] ELSE s

SUBRNUMCHARS == 8
key8(name) == IF Len(name) > SUBRNUMCHARS THEN SubSeq(name, 1, SUBRNUMCHARS) ELSE name

linksubs(s) ==
    IF s.halt # "none" THEN s
    ELSE LET Link[n \in 0..Len(s.calls)] ==
               IF n = 0 THEN [t |-> s, ok |-> TRUE]
               ELSE LET prev == Link[n - 1]
                        call == s.calls[n]
                        ms == {k \in 1..Len(s.subs) :
                                 key8(s.subs[k].name) = key8(call.name)}
                    IN IF ~prev.ok THEN prev
                       ELSE IF s.subs = <<>> THEN [t |-> Fault(prev.t), ok |-> FALSE]
                       ELSE IF ms = {} THEN [t |-> Do("error", prev.t, <<ERR_LINK>>), ok |-> FALSE]
                       ELSE [t |-> Do("emit_fixup", prev.t, <<call.addr, s.subs[MinOf(ms)].addr>>),
                             ok |-> TRUE]
         IN Link[Len(s.calls)].t

(* The end of run(): the switch on status, then back in the caller *)
(* Ghost: what a finished run of the stored program printed and the    *)
(* values it left in the scalar variables; the program a finished      *)
(* compilation has translated.                                         *)
ScalarsOf(s) ==
    {i \in 1..Len(s.vars) : s.vars[i].name[1] # "-" /\ (s.vars[i].type \div 16) % 16 = 0}

(* The lines the list head leads to *)
Stored(s) == IF s.program = 0 THEN <<>> ELSE s.lines

LogRun(s, kind, st) ==
    IF s.halt = "none" /\ kind = "run" /\ st \in {0, 1}
    THEN [s EXCEPT !.log.irun =
            <<[lines |-> Stored(s),
               out |-> SubSeq(s.out, s.log.atline[1].out + 1, Len(s.out)),
               vals |-> {<<s.vars[i].name, s.vars[i].val>> : i \in ScalarsOf(s)}]>>]
    ELSE s

LogComp(s) ==
    IF s.halt = "none" /\ ~Failed(s) THEN [s EXCEPT !.log.comp = <<[lines |-> Stored(s), code |-> s.code,
                               addrs |-> {<<s.vars[i].name, s.vars[i].val>> : i \in ScalarsOf(s)}]>>] ELSE s

RunExit(s, st) ==
    IF s.halt # "none" THEN s
    ELSE
    LET kind == s.hostStack[Len(s.hostStack)].kind
        s1 == IF st = 2
              THEN [printchar(printdec(print(s, " err at "), s.counter), "\n")
                      EXCEPT !.returnSP = RETSTACKSZ - 1, !.skipFlag = 0, !.compile = 0,
                             !.log.frames = <<>>, !.log.cs = <<>>]
              ELSE IF st = 3
              THEN [printchar(printdec(print(s, "\nBrk at "), s.counter), "\n")
                      EXCEPT !.returnSP = RETSTACKSZ - 1, !.skipFlag = 0, !.compile = 0,
                             !.log.frames = <<>>, !.log.cs = <<>>]
              ELSE s
        s2 == [s1 EXCEPT !.hostStack = SubSeq(@, 1, Len(@) - 1)]
    IN IF kind = "fn" THEN [s2 EXCEPT !.pc = "fnret"]
       ELSE IF kind = "comp" /\ s2.compile = 1
       THEN Continue(LogComp([linksubs(Do("emit", s2, <<"END">>)) EXCEPT !.compile = 0]))
       ELSE Continue(LogRun(s2, kind, st))

(* The test of the while loop of run() and the start of its body *)
RunCheck(s, st) ==
    IF s.halt # "none" THEN s
    ELSE IF s.current # 0 /\ st = 0
    THEN Continue([(IF s.compile = 1 THEN printchar(s, ".") ELSE s)
                     EXCEPT !.txtPtr = TxtAddr(s.current, 1)])
    ELSE Do("RunExit", s, <<st>>)

RunEnter(s, kind, cont) ==
    IF s.halt # "none" THEN s
    ELSE LET s1 == [s EXCEPT !.hostStack = Append(@, [kind |-> kind]),
                             !.calllevel = 0, !.skipFlag = 0]
             s2 == IF cont = 0
                   THEN clearvars([s1 EXCEPT !.counter = 0, !.returnSP = RETSTACKSZ - 1,
                                             !.current = s.program, !.log.frames = <<>>,
                                             !.log.cs = <<>>])
                   ELSE s1
         IN RunCheck(s2, 0)

(* After parseline() has returned to run() *)
RunLoopStep(s) ==
    IF s.halt # "none" THEN s
    ELSE IF s.current = 0 THEN Do("RunExit", s, <<s.status>>)
    ELSE RunCheck([s EXCEPT !.current = NextLine(s, s.current), !.counter = @ + 1], s.status)

(* After parseline() has returned to main() *)
MainAfterParse(s) ==
    IF s.halt # "none" THEN s
    ELSE LET s1 == IF s.status \in {0, 1} THEN printchar(s, "\n")
                   ELSE [print(s, IF s.status = 3 THEN "Brk\n" ELSE " err\n")
                           EXCEPT !.returnSP = RETSTACKSZ - 1, !.skipFlag = 0]
             s2 == IF s1.returnSP # RETSTACKSZ - 1
                   THEN [Do("error", s1, <<ERR_STACK>>) EXCEPT !.returnSP = RETSTACKSZ - 1]
                   ELSE s1
         IN [s2 EXCEPT !.skipFlag = 0, !.pc = "prompt", !.log.frames = <<>>,
                       !.log.cs = IF s.status \in {0, 1} /\ s1.returnSP = RETSTACKSZ - 1
                                  THEN @ ELSE <<>>]

(* ------------------------------------------------------------------ *)
(* parseline(): one iteration of its for(;;) loop is one statement      *)
(* ------------------------------------------------------------------ *)
(* ------------------------------------------------------------------ *)
(* Files: openfile(), readfile(), writefile() of the POSIX build, and   *)
(* the editor's insertfirstline() and appendline().  A program line is  *)
(* its text here, a file is its bytes.                                  *)
(* ------------------------------------------------------------------ *)
LF == "\n"
CR == "\r"
BufSz == 255

printstr(s, cs) ==
    IF s.halt = "none"
    THEN [s EXCEPT !.out = @ \o [i \in 1..Len(cs) |-> Item("ch", 0, cs[i])]]
    ELSE s

insertfirstline(s, line) ==
    IF s.halt # "none" THEN s
    ELSE IF s.program = 0
    THEN [s EXCEPT !.lines = <<[line |-> line]>>, !.program = 1, !.freed = {}]
    ELSE [s EXCEPT !.lines = <<[line |-> line]>> \o @,
                   !.current = IF @ = 0 THEN 0 ELSE @ + 1]

(* The new line goes after current; without a current line the store   *)
(* through current->next is a store through NULL.                      *)
appendline_nomove(s, line) ==
    IF s.halt # "none" THEN s
    ELSE IF s.current = 0 THEN Fault(s)
    ELSE [s EXCEPT !.lines = SubSeq(@, 1, s.current) \o <<[line |-> line]>>
                             \o SubSeq(@, s.current + 1, Len(@))]

appendline(s, line) ==
    IF s.halt # "none" THEN s
    ELSE IF s.current = 0 THEN Fault(s)
    ELSE [s EXCEPT !.lines = SubSeq(@, 1, s.current) \o <<[line |-> line]>>
                             \o SubSeq(@, s.current + 1, Len(@)),
                   !.current = @ + 1]

Opened(s1, writemode) ==
    IF writemode = 1 THEN Rc([s1 EXCEPT !.file = [exists |-> TRUE, data |-> <<>>]], 0)
    ELSE IF ~s1.file.exists THEN Rc(Do("error", s1, <<ERR_FILE>>), 1)
    ELSE Rc(s1, 0)

openfile(s, writemode) ==
    IF s.halt # "none" THEN s
    ELSE Opened(printchar(printstr(print(s, IF writemode = 1 THEN "Writing "
                                            ELSE "Reading "), s.readbuf), ":"),
                writemode)

ProgramText(s) ==
    IF s.program = 0 THEN <<>> ELSE [i \in 1..Len(s.lines) |-> s.lines[i].line]

(* The bytes writefile() writes: every line followed by a line feed *)
FileImage(text) ==
    LET Img[k \in 0..Len(text)] ==
            IF k = 0 THEN <<>> ELSE Img[k - 1] \o text[k] \o <<LF>>
    IN Img[Len(text)]

WriteLines(s1) ==
    IF Failed(s1) THEN Rc(s1, 1)
    ELSE Rc(print([s1 EXCEPT !.file.data = FileImage(ProgramText(s1)),
                             !.current = 0], "OK\n"), 0)

writefile(s) == IF s.halt # "none" THEN s ELSE WriteLines(openfile(s, 1))

ReadDone(s, buf, count) ==
    Rc(print(printdec([s EXCEPT !.readbuf = buf], count), " lines\n"), 0)

(* fread(): the bytes it delivers into the free part of readbuf *)
FreadCount(rest, buf, done) ==
    IF done THEN 0
    ELSE IF Len(rest) < BufSz - Len(buf) THEN Len(rest) ELSE BufSz - Len(buf)

(* The position of the first LF or CR in the buffer, 0 if none *)
EolAt(buf) ==
    IF \E i \in 1..Len(buf) : buf[i] \in {LF, CR}
    THEN MinOf({i \in 1..Len(buf) : buf[i] \in {LF, CR}})
    ELSE 0

StoreLine(s, line, count) ==
    IF count = 0 THEN findline(insertfirstline([s EXCEPT !.lnbuf = line], line), 1)
    ELSE appendline([s EXCEPT !.lnbuf = line], line)

RECURSIVE ReadLoop(_, _, _, _, _), ReadTurn(_, _, _, _, _, _), ReadTail(_, _, _, _, _, _)

(* The test of the do-while loop of readfile() *)
ReadTail(s, rest, buf, done, count, bytes) ==
    IF bytes # 0 \/ buf # <<>> THEN ReadLoop(s, rest, buf, done, count)
    ELSE ReadDone(s, buf, count)

(* The body of the loop after the fread(): a line is cut off at the    *)
(* first LF or CR and stored, or the rest of a finished file is stored *)
ReadTurn(s, rest, buf, done, count, bytes) ==
    IF EolAt(buf) # 0
    THEN ReadTail(StoreLine(s, SubSeq(buf, 1, EolAt(buf) - 1), count), rest,
                  SubSeq(buf, EolAt(buf) + 1, Len(buf)), done, count + 1, bytes)
    ELSE IF Len(buf) = BufSz THEN Rc(Do("error", s, <<ERR_FILE>>), 1)
    ELSE IF done /\ buf # <<>> THEN ReadDone(appendline(s, buf), buf, count + 1)
    ELSE ReadTail(s, rest, buf, done, count, bytes)

(* One turn of the do-while loop of readfile(): rest is the unread     *)
(* part of the file, buf the bytes in readbuf.                         *)
ReadLoop(s, rest, buf, done, count) ==
    IF s.halt # "none" THEN s
    ELSE ReadTurn(s, SubSeq(rest, FreadCount(rest, buf, done) + 1, Len(rest)),
                  buf \o SubSeq(rest, 1, FreadCount(rest, buf, done)),
                  done \/ FreadCount(rest, buf, done) = 0, count,
                  FreadCount(rest, buf, done))

ReadLines(s1) ==
    IF Failed(s1) THEN Rc(s1, 1)
    ELSE ReadLoop(new(clearvars(s1)), s1.file.data, <<>>, FALSE, 0)

readfile(s) == IF s.halt # "none" THEN s ELSE ReadLines(openfile(s, 0))

LoadReturn(s1) == IF Failed(s1) THEN Return(s1, 2) ELSE Return(s1, 0)

(* Ghost: the last file operation, where the file came from, and the   *)
(* program text the last save wrote.                                   *)
LogIo(s, op) == IF s.halt = "none" THEN [s EXCEPT !.log.io.last = op] ELSE s
LogSave(before, after) ==
    IF Failed(after) THEN LogIo(after, "failed")
    ELSE [after EXCEPT !.log.io = [last |-> "save", origin |-> "save",
                                   text |-> ProgramText(before)]]

(* checkInterrupted(): the poll of the stop key.  stop.at counts the   *)
(* polls up to the one that sees the user's request, 0 when there is   *)
(* none; stop.held tells whether the key is still down at later polls. *)
checkInterrupted(s) == s.stop.at = 1
AfterPoll(s) ==
    IF s.stop.at = 1 THEN (IF s.stop.held THEN s ELSE [s EXCEPT !.stop = NoStop])
    ELSE IF s.stop.at = 0 THEN s
    ELSE [s EXCEPT !.stop.at = @ - 1]

(* Ghost: a stop request seen during run, and a statement of the        *)
(* program text executed after it.                                      *)
LogBrk(s) ==
    IF s.hostStack # <<>> THEN [s EXCEPT !.log.brk = TRUE] ELSE s
LogLate(s) ==
    IF s.log.brk /\ LineOf(s.txtPtr) # 0 THEN [s EXCEPT !.log.late = TRUE] ELSE s

checkNoMoreArgs(s) ==
    IF s.halt # "none" THEN s
    ELSE IF CurTok(s).t # "eol" /\ ~IsSym(CurTok(s), ";")
    THEN Rc(print(printchar(Do("error", s, <<ERR_EXTRA>>), " "), TokChar(CurTok(s))), 1)
    ELSE Rc(s, 0)

matchstatement(s) == IF CurTok(s).t = "kw" THEN CurTok(s).v ELSE ILLEGAL

RECURSIVE SkipSemi(_), EatLine(_), RunSteps(_, _, _)

SkipSemi(s) == IF IsSym(CurTok(s), ";") THEN SkipSemi(Adv(s, 1)) ELSE s

EatAndEcho(s) == printchar(Adv(s, 1), ";")

EatStatement(s) ==
    IF CurTok(s).t = "eol" \/ IsSym(CurTok(s), ";") THEN s ELSE Do("EatStatement", Adv(s, 1), <<>>)

(* FULLLINE: the entire line belongs to the statement *)
EatLine(s) == IF CurTok(s).t = "eol" THEN s ELSE EatLine(Adv(s, 1))

FullLineToks == {TOK_COMM}
NoArgToks == {TOK_PRNL, TOK_CLEAR, TOK_RUN, TOK_NEW, TOK_ENDSUBR, TOK_ELSE, TOK_ENDIF,
              TOK_ENDFOR, TOK_ENDW, TOK_END}
OneArgToks == {TOK_PRDEC, TOK_PRDEC_S, TOK_PRCH, TOK_IF, TOK_RET, TOK_WHILE, TOK_APP,
               TOK_INS}
NameArgToks == {TOK_SUBR, TOK_CALL}
SkipToks == {TOK_IF, TOK_ELSE, TOK_ENDIF, TOK_WHILE, TOK_ENDW}

(* The generic parameter handling by statement type; the argument in rv *)
StmtArgs(s, token) ==
    IF s.halt # "none" THEN s
    ELSE IF token \in NoArgToks THEN Do("checkNoMoreArgs", s, <<>>)
    ELSE IF token \in OneArgToks THEN Do("eval", s, <<1>>)
    ELSE IF token \in NameArgToks
    THEN IF CurTok(s).t # "id" THEN Rc(s, 1)
         ELSE Rc([Adv(s, 1) EXCEPT !.readbuf = CurTok(s).s], 0)
    ELSE IF token \in {TOK_COMPILE, TOK_LOAD, TOK_SAVE, TOK_PRMSG}
    THEN IF CurTok(s).t # "str" THEN Rc(s, 1)
         ELSE Do("checkNoMoreArgs", [Adv(s, 1) EXCEPT !.readbuf = CurTok(s).s], <<>>)
    ELSE IF token \in FullLineToks THEN Rc(EatLine(s), 0)
    ELSE Rc(s, 0)

(* The message is in readbuf.  rtPC is moved once more after the       *)
(* opcode and not after the terminator.                                *)
RECURSIVE EmitChars(_, _)
EmitChars(s, p) ==
    IF p = <<>> THEN s
    ELSE EmitChars([s EXCEPT !.code = Append(@, DataByte(CharCode(Head(p)))),
                             !.rtPC = @ + 1, !.log.em.chars = @ + 1], Tail(p))

(* Moves rtPC after the terminator as well *)
emitprmsg_counted(s) ==
    IF s.halt # "none" THEN s
    ELSE LET a == EmitChars([Do("emit", s, <<"PRMSG">>) EXCEPT !.rtPC = @ + 1, !.log.em.msg = @ + 1],
                            s.readbuf)
         IN [a EXCEPT !.code = Append(@, DataByte(0)), !.rtPC = @ + 1]

emitprmsg(s) ==
    IF s.halt # "none" THEN s
    ELSE LET a == EmitChars([Do("emit", s, <<"PRMSG">>) EXCEPT !.rtPC = @ + 1, !.log.em.msg = @ + 1],
                            s.readbuf)
         IN [a EXCEPT !.code = Append(@, DataByte(0))]

PrDecS(s, arg) ==
    LET s1 == IF s.compile = 1
              THEN LET a == Do("emit", Do("emit", emitldi(Do("emit", s, <<"DUP">>), 32768), <<"BITAND">>), <<"NOT">>)
                       b == Do("emit_imm", a, <<"BRNCHIMM", a.rtPC + 9>>)
                   IN Do("emit", Do("emit", Do("emit", emitldi(b, 45), <<"PRCH">>), <<"NEG">>), <<"PRDEC">>)
              ELSE s
        s2 == IF arg < 0 THEN printchar(s1, "-") ELSE s1
    IN printdec(s2, Abs(arg))

CLEARRTCALLSTACK(s) ==
    [s EXCEPT !.rtSP = RTCALLSTACKTOP, !.rtFP = RTCALLSTACKTOP, !.rtPC = RTPCSTART,
              !.code = <<>>,
              !.log.placed = {}, !.log.open = {}, !.log.badfix = {}, !.log.bound = {},
              !.log.vsp = 0, !.log.comp = <<>>, !.log.ops = {}, !.log.bind = {}, !.log.defs = {},
              !.log.em = EmInit, !.log.fx = {}]

StmtCompile(s) ==
    Do("RunEnter", CLEARRTCALLSTACK([s EXCEPT !.compile = 1, !.subs = <<>>, !.calls = <<>>]), <<"comp", 0>>)

(* Ghost: the statement boundaries of the compiler, and the statements  *)
(* executed under a function invocation.                                *)
LogStmt(s, token) ==
    IF s.compile = 1
    THEN [s EXCEPT !.log.bound = @ \cup {[pc |-> s.rtPC, sp |-> s.rtSP, vsp |-> s.log.vsp,
                                            sub |-> s.compilingsub, tok |-> token]}]
    ELSE IF s.log.fnlvl # 0
    THEN [s EXCEPT !.log.ev = Append(@, [tok |-> token, lvl |-> Len(s.log.frames),
                                         val |-> 0])]
    ELSE s

(* History of new and clear: what each left of the variable list and   *)
(* of the program store, and where it was executed.                    *)
LogNC(before, after, kind) ==
    IF after.halt # "none" THEN after
    ELSE [after EXCEPT !.log.nc =
            Append(@, [kind |-> kind,
                       vars |-> after.vars = before.vars,
                       prog |-> after.program = before.program
                                /\ after.freed = before.freed,
                       level |-> Len(before.log.frames),
                       running |-> before.hostStack # <<>>])]

Check(s) == IF Failed(s) THEN Return(s, 2) ELSE Continue(s)

Dispatch(s, token, startTxtPtr) ==
    IF Failed(s) THEN Return(s, 2)
    ELSE LET arg == s.rv IN
    CASE token = TOK_PRDEC ->
           Continue(IF s.compile = 1 THEN Do("emit", s, <<"PRDEC">>) ELSE printdec(s, arg))
      [] token = TOK_PRDEC_S -> Continue(PrDecS(s, arg))
      [] token = TOK_PRNL ->
           Continue(IF s.compile = 1 THEN Do("emit", emitldi(s, 10), <<"PRCH">>)
                    ELSE printchar(s, "\n"))
      [] token = TOK_PRCH ->
           Continue(IF s.compile = 1 THEN Do("emit", s, <<"PRCH">>) ELSE printchar(s, ChrOf(arg)))
      [] token = TOK_CLEAR ->
           Continue(LogNC(s, clearvars(s), "clear"))
      [] token = TOK_WORD -> Do("Check", Do("assignorcreate", s, <<WORD_MODE>>), <<>>)
      [] token = TOK_BYTE -> Do("Check", Do("assignorcreate", s, <<BYTE_MODE>>), <<>>)
      [] token = TOK_RUN -> Do("RunEnter", s, <<"run", 0>>)
      [] token = TOK_COMPILE -> StmtCompile(s)
      [] token = TOK_NEW -> Continue(LogNC(s, new(s), "new"))
      [] token = TOK_SUBR -> Do("Check", dosubr(s), <<>>)
      [] token = TOK_ENDSUBR -> Do("Check", doendsubr(s), <<>>)
      [] token = TOK_CALL ->
           LET s1 == Do("docall", s, <<>>)
           IN IF Failed(s1) THEN Return(s1, 2)
              ELSE IF s1.compile = 1 THEN Continue(Do("emit", s1, <<"DROP">>))
              ELSE IF RS(s1, s1.returnSP + 2) = -1 THEN Do("RunEnter", s1, <<"call", 1>>)
              ELSE Continue(s1)
      [] token = TOK_RET ->
           LET s1 == Do("doreturn", s, <<arg>>)
           IN IF Failed(s1) THEN Return(s1, 2)
              ELSE IF RS(s1, s1.returnSP + 2) = -2 THEN Return(s1, 1)
              ELSE Continue(s1)
      [] token = TOK_IF -> Continue(doif(s, arg))
      [] token = TOK_ELSE -> Do("Check", doelse(s), <<>>)
      [] token = TOK_ENDIF -> Do("Check", doendif(s), <<>>)
      [] token = TOK_FOR -> Do("Check", Do("assignorcreate", s, <<FOR_MODE>>), <<>>)
      [] token = TOK_ENDFOR -> Do("Check", doendfor(s), <<>>)
      [] token = TOK_WHILE -> Continue(dowhile(LogWh(s, startTxtPtr), startTxtPtr, arg))
      [] token = TOK_ENDW -> Do("Check", doendwhile(s), <<>>)
      [] token = TOK_END ->
           IF s.compile = 1 THEN Continue(Do("emit", s, <<"END">>)) ELSE Return(s, 1)
      [] token = TOK_LOAD ->
           LoadReturn(readfile(LogIo(s, "load")))
      [] token = TOK_SAVE -> Do("Check", LogSave(s, writefile(s)), <<>>)
      [] token = TOK_APP ->
           LET s1 == findline(s, arg)
           IN Continue(IF s1.current = 0 THEN Do("error", s1, <<ERR_LINE>>)
                       ELSE [s1 EXCEPT !.editmode = 1])
      [] token = TOK_INS ->
           IF arg <= 1 THEN Continue([s EXCEPT !.editmode = 2])
           ELSE LET s1 == findline(s, arg - 1)
                IN Continue(IF s1.current = 0 THEN Do("error", s1, <<ERR_LINE>>)
                            ELSE [s1 EXCEPT !.editmode = 1])
      [] token = TOK_COMM -> Continue(s)
      [] token = TOK_PRMSG ->
           Continue(IF s.compile = 1 THEN Do("emitprmsg", s, <<>>) ELSE print(s, s.readbuf))
      [] OTHER -> EXIT(s, 99)

(* Ghost: the construct a statement opens or closes, and for else,     *)
(* endif, endfor and endwhile what the statement found open, the error *)
(* it reported and whether it left the return stack and skipFlag alone.*)
Openers == {TOK_IF, TOK_FOR, TOK_WHILE}
Closers == {TOK_ELSE, TOK_ENDIF, TOK_ENDFOR, TOK_ENDW}
ConstructOf(token) ==
    IF token \in {TOK_IF, TOK_ELSE, TOK_ENDIF} THEN "if"
    ELSE IF token \in {TOK_FOR, TOK_ENDFOR} THEN "for" ELSE "while"
CloserErr(token) ==
    IF token \in {TOK_ELSE, TOK_ENDIF} THEN ERR_NOIF
    ELSE IF token = TOK_ENDFOR THEN ERR_NOFOR ELSE ERR_NOWHILE
ErrReported(before, after) ==
    IF Len(after.out) > Len(before.out) /\ after.out[Len(before.out) + 1].k = "err"
    THEN after.out[Len(before.out) + 1].v ELSE 0

LogCs(before, after, token) ==
    IF token \notin Openers \cup Closers \/ Failed(before) THEN after
    ELSE LET cs == after.log.cs
             top == IF cs = <<>> THEN "none" ELSE cs[Len(cs)]
             cs1 == IF token \in Openers /\ after.returnSP < before.returnSP
                    THEN Append(cs, ConstructOf(token))
                    ELSE IF token \in Closers /\ after.returnSP > before.returnSP
                              /\ cs # <<>>
                    THEN SubSeq(cs, 1, Len(cs) - 1)
                    ELSE cs
             ev == [tok |-> token, top |-> top, err |-> ErrReported(before, after),
                    same |-> /\ after.return_stack = before.return_stack
                             /\ after.returnSP = before.returnSP
                             /\ after.skipFlag = before.skipFlag
                             /\ after.halt = "none"]
         IN [after EXCEPT !.log.cs = cs1,
                          !.log.cx = IF token \in Closers THEN <<ev>> ELSE @]

(* What the next iteration of parseline() will do *)
StmtKind(s0) ==
    LET s == SkipSemi(s0)
        token == matchstatement(s)
    IN IF checkInterrupted(s0) THEN "brk"
       ELSE IF ~TxtOk(s0) THEN "fault"
       ELSE IF CurTok(s).t = "eol" THEN "eol"
       ELSE IF s.skipFlag # 0 /\ token \notin SkipToks THEN "skip"
       ELSE IF token = ILLEGAL THEN "let"
       ELSE "kw"

StatementBody(s0) ==
        Bind(SkipSemi(s0), LAMBDA s :
        Bind(    matchstatement(s), LAMBDA token :
        Bind(   StmtKind(s0), LAMBDA kind :
       IF kind = "eol" THEN Return(s, 0)
       ELSE IF kind = "skip" THEN Continue(Do("EatStatement", s, <<>>))
       ELSE IF kind = "let" THEN Do("Check", Do("assignorcreate", LogLate(LogStmt(s, token)), <<LET_MODE>>), <<>>)
       ELSE LET s1 == [Adv(LogLate(LogStmt(s, token)), 1) EXCEPT !.rtPCBeforeEval = s.rtPC]
                s2 == StmtArgs(s1, token)
            IN LogCs(s2, Dispatch(s2, token, s.txtPtr), token))))

Statement(s00) ==
    IF s00.halt # "none" THEN s00
    ELSE IF checkInterrupted(s00) THEN Return(LogBrk(AfterPoll(s00)), 3)
    ELSE IF ~TxtOk(s00) THEN Fault(s00)
    ELSE Do("StatementBody", AfterPoll(s00), <<>>)


(* One step of control, wherever it is *)
StepM(s) ==
    IF s.halt # "none" THEN s
    ELSE IF s.pc = "parse" THEN Statement(s)
    ELSE IF s.pc = "ret" /\ s.hostStack # <<>> THEN RunLoopStep(s)
    ELSE IF s.pc = "ret" THEN Do("MainAfterParse", s, <<>>)
    ELSE s

(* The while loop of a nested run(): n steps of control, or fewer when  *)
(* the run at the given depth of the host stack has returned.  The      *)
(* steps are taken in order, the first half before the second.          *)
RunSteps(s, depth, n) ==
    IF s.halt # "none" \/ Len(s.hostStack) < depth THEN s
    ELSE IF n = 1 THEN StepM(s)
    ELSE RunSteps(RunSteps(s, depth, n \div 2), depth, n - n \div 2)

RunToDepth(s, depth, fuel) ==
    LET t == RunSteps(s, depth, fuel)
    IN IF t.halt # "none" \/ Len(t.hostStack) < depth THEN t ELSE [t EXCEPT !.halt = "hang"]

(* run(cont) called from P(): runs to its end under the expression *)
run(s, cont) ==
    IF s.halt # "none" THEN s
    ELSE LET s1 == RunToDepth(Do("RunEnter", s, <<"fn", cont>>), Len(s.hostStack) + 1, Fuel)
         IN IF s1.halt = "none" THEN [s1 EXCEPT !.pc = s.pc] ELSE s1

(* ------------------------------------------------------------------ *)
(* Calls between the functions of the program go through Do, by name:   *)
(* Do("f", s, <<x, y>>) is the call f(s, x, y).                         *)
(* ------------------------------------------------------------------ *)
Do(f, s, a) ==
    CASE f = "error" -> error(s, a[1])
      [] f = "emit" -> emit(s, a[1])
      [] f = "emit_imm" -> emit_imm(s, a[1], a[2])
      [] f = "emit_fixup" -> emit_fixup(s, a[1], a[2])
      [] f = "push_operator_stack" -> push_operator_stack(s, a[1])
      [] f = "pop_operator_stack" -> pop_operator_stack(s)
      [] f = "push_operand_stack" -> push_operand_stack(s, a[1])
      [] f = "push_return" -> push_return(s, a[1])
      [] f = "pop_return" -> pop_return(s)
      [] f = "expect" -> expect(s, a[1])
      [] f = "alloc1" -> alloc1(s, a[1])
      [] f = "findintvar" -> findintvar(s, a[1], a[2])
      [] f = "LinkVar" -> LinkVar(s, a[1])
      [] f = "vars_markcallframe" -> vars_markcallframe(s)
      [] f = "vars_deletecallframe" -> vars_deletecallframe(s)
      [] f = "Peek" -> Peek(s, a[1])
      [] f = "Poke" -> Poke(s, a[1], a[2], a[3])
      [] f = "pop_operator" -> pop_operator(s)
      [] f = "push_operator" -> push_operator(s, a[1])
      [] f = "getintvar" -> getintvar(s, a[1], a[2], a[3])
      [] f = "ELoop" -> ELoop(s)
      [] f = "subscript" -> subscript(s)
      [] f = "PGet" -> PGet(s, a[1], a[2], a[3])
      [] f = "PCallReturned" -> PCallReturned(s, a[1], a[2])
      [] f = "P" -> P(s)
      [] f = "eval" -> eval(s, a[1])
      [] f = "SkipComma" -> SkipComma(s)
      [] f = "InitList" -> InitList(s, a[1], a[2], a[3], a[4])
      [] f = "createintvar" -> createintvar(s, a[1], a[2], a[3], a[4], a[5], a[6])
      [] f = "backtotop" -> backtotop(s, a[1], a[2])
      [] f = "RetErr" -> RetErr(s, a[1], a[2])
      [] f = "DoFormals" -> DoFormals(s, a[1], a[2], a[3])
      [] f = "docall" -> docall(s)
      [] f = "doreturn" -> doreturn(s, a[1])
      [] f = "assignorcreate" -> assignorcreate(s, a[1])
      [] f = "SubFormals" -> SubFormals(s)
      [] f = "RunExit" -> RunExit(s, a[1])
      [] f = "RunEnter" -> RunEnter(s, a[1], a[2])
      [] f = "MainAfterParse" -> MainAfterParse(s)
      [] f = "checkNoMoreArgs" -> checkNoMoreArgs(s)
      [] f = "EatStatement" -> EatStatement(s)
      [] f = "emitprmsg" -> emitprmsg(s)
      [] f = "Check" -> Check(s)
      [] f = "StatementBody" -> StatementBody(s)

(* ------------------------------------------------------------------ *)
(* main(): the prompt, the editor, the warm reset                       *)
(* ------------------------------------------------------------------ *)
keepexprstacks(s) ==
    IF s.operatorSP = 0
    THEN Do("push_operator_stack", [s EXCEPT !.operandSP = STACKSZ - 1,
                                       !.operatorSP = STACKSZ - 1], <<SENTINEL>>)
    ELSE s

clearexprstacks(s) ==
    Do("push_operator_stack", [s EXCEPT !.operandSP = STACKSZ - 1, !.operatorSP = STACKSZ - 1], <<SENTINEL>>)

(* One turn of the for(;;) loop of main() up to the call of parseline() *)
ReadLine(s, l) ==
    LET s1 == clearexprstacks(s)
    IN IF s1.halt # "none" THEN s1
       ELSE [s1 EXCEPT !.compile = 0, !.lnbuf = l, !.txtPtr = TxtAddr(0, 1),
                       !.current = 0, !.counter = -1, !.pc = "parse",
                       !.inputs = @ + 1,
                       !.log.atline = <<[warm |-> s.log.warm, sp |-> s.returnSP,
                                         skip |-> s.skipFlag, out |-> Len(s.out)]>>,
                       !.log.warm = FALSE, !.log.nc = <<>>, !.log.cx = <<>>,
                       !.log.dz = <<>>, !.log.idx = {}, !.log.wh = {},
                       !.log.brk = FALSE, !.log.late = FALSE]

(* The editor: insertfirstline() for the first line of p, appendline() *)
(* for each of the others.                                             *)
StoreProgram(s, p) ==
    [s EXCEPT !.lines = [i \in 1..Len(p) |-> [line |-> p[i]]],
              !.program = IF p = <<>> THEN 0 ELSE 1, !.freed = {}]

(* Ghost: the line typed in an edit mode and what it did *)
LogEd(before, after, l) ==
    IF after.halt # "none" THEN after
    ELSE [after EXCEPT !.log.ed = <<[mode |-> before.editmode, text |-> l,
                                     same |-> Stored(after) = Stored(before),
                                     modeAfter |-> after.editmode]>>]

(* One turn of the for(;;) loop of main() in an edit mode: the line is *)
(* the text typed, a period in its first column leaves edit mode 1.    *)
EditLine(s, l) ==
    LET s1 == [printchar(clearexprstacks(s), ">")
                 EXCEPT !.compile = 0, !.lnbuf = l, !.inputs = @ + 1]
    IN IF s1.halt # "none" THEN s1
       ELSE IF s.editmode = 1
       THEN IF l # <<>> /\ l[1] = "." THEN [s1 EXCEPT !.editmode = 0]
            ELSE appendline(s1, l)
       ELSE [findline(insertfirstline(s1, l), 1) EXCEPT !.editmode = 1]

(* setjmp() returning 1: control is in main() again, before its loop *)
Restart(s) ==
    [print([s EXCEPT !.halt = "none"], "Restart\n")
       EXCEPT !.hostStack = <<>>, !.pc = "prompt", !.log.warm = TRUE]

LogInit ==
    [placed |-> {}, open |-> {}, badfix |-> {}, bound |-> {}, vsp |-> 0,
     frames |-> <<>>, ret |-> <<>>, fnlvl |-> 0, ev |-> <<>>, fn |-> <<>>,
     nc |-> <<>>, aset |-> <<>>, pend |-> {}, decl |-> <<>>,
     atline |-> <<>>, warm |-> FALSE, irun |-> <<>>, comp |-> <<>>, cs |-> <<>>, cx |-> <<>>, dz |-> <<>>, dim |-> <<>>, idx |-> {},
     brk |-> FALSE, late |-> FALSE, ed |-> <<>>, ops |-> {}, wh |-> {}, bind |-> {}, defs |-> {}, xs |-> {},
     em |-> EmInit, fx |-> {},
     io |-> [last |-> "none", origin |-> "none", text |-> <<>>]]

(* ------------------------------------------------------------------ *)
(* Program texts and immediate-mode lines                               *)
(* ------------------------------------------------------------------ *)
V(c) == ID(<<c>>)
O(c) == OP(<<c>>)
Count == ID(<<"c", "o", "u", "n", "t">>)
Counx == ID(<<"c", "o", "u", "n", "x">>)
Neg(k) == <<NUM(0), O("-"), NUM(k)>>
Minuses(k) == [i \in 1..k |-> O("-")]
Ifs(k) == [i \in 1..(3 * k) |-> IF i % 3 = 1 THEN KW(TOK_IF)
                                ELSE IF i % 3 = 2 THEN NUM(1) ELSE SYM(";")]

LSub(name, formals) == <<KW(TOK_SUBR), V(name), SYM("(")>> \o formals \o <<SYM(")")>>
LCall(name, args) == <<KW(TOK_CALL), V(name), SYM("(")>> \o args \o <<SYM(")")>>
LWord(x, e) == <<KW(TOK_WORD), x, SYM("=")>> \o e
LLet(x, e) == <<x, SYM("=")>> \o e
LFor(x, a, b) == <<KW(TOK_FOR), x, SYM("=")>> \o a \o <<SYM(":")>> \o b
LArr(kw, x, sz, init) ==
    <<KW(kw), x, SYM("["), NUM(sz), SYM("]"), SYM("="), SYM("{")>> \o init \o <<SYM("}")>>

ProgScope ==
    << LSub("s", <<KW(TOK_WORD), V("a")>>),
       LWord(V("t"), <<V("a")>>),
       LFor(V("t"), <<NUM(1)>>, <<NUM(3)>>),
       <<KW(TOK_IF), V("t")>>,
       <<KW(TOK_RET), V("t"), O("+"), V("a")>>,
       <<KW(TOK_ENDSUBR)>>,
       LSub("e", <<>>),
       LWord(V("q"), <<NUM(1)>>),
       <<KW(TOK_WHILE), V("q")>>,
       <<KW(TOK_ENDSUBR)>>,
       LSub("d", <<KW(TOK_WORD), V("a")>>),
       LWord(V("a"), <<NUM(2)>>),
       <<KW(TOK_ENDSUBR)>> >>

MenuScope ==
    { LWord(Count, <<NUM(1)>>), LWord(Counx, <<NUM(2)>>),
      LCall("s", <<NUM(5)>>), LCall("e", <<>>), LCall("d", <<NUM(1)>>),
      <<KW(TOK_RUN)>> }

ProgClear ==
    << LWord(V("g"), <<NUM(1)>>),
       <<KW(TOK_CLEAR)>>,
       <<KW(TOK_PRDEC), NUM(2)>>,
       <<KW(TOK_END)>>,
       LSub("c", <<>>),
       <<KW(TOK_CLEAR)>>,
       LWord(V("y"), <<NUM(0)>>),
       <<KW(TOK_RET), NUM(0)>>,
       LSub("k", <<>>),
       <<KW(TOK_CLEAR)>>,
       <<KW(TOK_ENDSUBR)>>,
       LSub("n", <<>>),
       <<KW(TOK_NEW), SYM(";"), KW(TOK_RET), NUM(0)>> >>

MenuClear ==
    { LWord(V("x"), <<NUM(1)>>), LCall("c", <<>>), LCall("k", <<>>), LCall("n", <<>>),
      <<KW(TOK_CLEAR), SYM(";"), KW(TOK_PRDEC), NUM(1)>>,
      <<KW(TOK_NEW), SYM(";"), KW(TOK_PRDEC), NUM(1)>>,
      <<KW(TOK_RUN)>> }

ProgArr ==
    << LSub("w", <<KW(TOK_WORD), V("A"), SYM("["), SYM("]"), SYM(","),
                   KW(TOK_WORD), V("i"), SYM(","), KW(TOK_WORD), V("v")>>),
       <<V("A"), SYM("["), V("i"), SYM("]"), SYM("="), V("v")>>,
       <<KW(TOK_RET), NUM(0)>>,
       LSub("b", <<KW(TOK_BYTE), V("B"), SYM("["), SYM("]")>>),
       <<V("B"), SYM("["), NUM(1), SYM("]"), SYM("="), NUM(300)>>,
       <<KW(TOK_ENDSUBR)>> >>

MenuArr ==
    { LArr(TOK_WORD, V("a"), 3, <<NUM(1), SYM(","), NUM(2), SYM(","), NUM(3)>>),
      LArr(TOK_BYTE, V("c"), 2, <<NUM(4), SYM(","), NUM(5)>>),
      LCall("w", <<V("a"), SYM(","), NUM(1), SYM(","), NUM(7)>>),
      LCall("w", <<V("a"), SYM(","), NUM(0), SYM(","), NUM(9)>>),
      LCall("b", <<V("c")>>),
      <<KW(TOK_PRDEC), V("a"), SYM("["), NUM(1), SYM("]")>> }

ProgRet ==
    << LSub("f", <<KW(TOK_WORD), V("a")>>),
       <<KW(TOK_RET), V("a"), O("+"), NUM(1)>>,
       <<KW(TOK_PRDEC), NUM(9)>>,
       <<KW(TOK_ENDSUBR)>>,
       LSub("g", <<>>),
       <<KW(TOK_RET), NUM(7)>>,
       LSub("h", <<>>),
       LWord(V("i"), <<NUM(0)>>),
       LFor(V("i"), Neg(3), Neg(2)),
       LCall("g", <<>>),
       <<KW(TOK_ENDFOR)>>,
       <<KW(TOK_RET), NUM(1)>>,
       LSub("r", <<>>),
       LWord(V("i"), <<NUM(0)>>),
       LFor(V("i"), <<NUM(CALLFRAME - 1)>>, <<NUM(CALLFRAME)>>),
       <<KW(TOK_RET), NUM(5)>> >>

MenuRet ==
    { <<KW(TOK_PRDEC), V("f"), SYM("("), NUM(2), SYM(")"), O("*"), NUM(2)>>,
      <<KW(TOK_PRDEC), V("h"), SYM("("), SYM(")")>>,
      LCall("r", <<>>), LCall("h", <<>>) }

ProgWarm ==
    << LWord(V("g"), <<NUM(1)>>),
       <<KW(TOK_END)>> >>

MenuWarm ==
    { Ifs(RETSTACKSZ \div 3 + 1),
      <<KW(TOK_IF), NUM(0), SYM(";"), KW(TOK_IF)>> \o Minuses(STACKSZ) \o <<NUM(1)>>,
      LArr(TOK_WORD, V("m"), HEAP1SZ, <<NUM(0)>>),
      <<KW(TOK_PRDEC), NUM(1)>> }

CompLine == <<KW(TOK_COMPILE), Tok("str", 0, <<"t">>)>>

ProgCtl ==
    << LWord(V("i"), <<NUM(0)>>),
       LFor(V("i"), <<NUM(1)>>, <<NUM(2)>>),
       <<KW(TOK_IF), V("i"), OP(<<"=", "=">>), NUM(1)>>,
       <<KW(TOK_PRDEC), V("i")>>,
       <<KW(TOK_ELSE)>>,
       <<KW(TOK_PRDEC_S), NUM(0), O("-"), V("i")>>,
       <<KW(TOK_ENDIF)>>,
       <<KW(TOK_ENDFOR)>>,
       <<KW(TOK_WHILE), V("i"), O("<"), NUM(4)>>,
       LLet(V("i"), <<V("i"), O("+"), NUM(1)>>),
       <<KW(TOK_ENDW)>>,
       <<KW(TOK_NEW)>>,
       <<KW(TOK_END)>> >>

MenuCtl == { <<KW(TOK_RUN)>>, <<KW(TOK_PRDEC), V("i")>>, CompLine }

(* Lines typed at the prompt over a one-line program *)
ProgBare == << <<KW(TOK_END)>> >>

(* for i = 1 : 4 ; pr.dec i ; pr.ch ' ' ; endfor ; pr.nl *)
ForLine ==
    LFor(V("i"), <<NUM(1)>>, <<NUM(4)>>)
        \o <<SYM(";"), KW(TOK_PRDEC), V("i"), SYM(";"), KW(TOK_PRCH), NUM(32),
             SYM(";"), KW(TOK_ENDFOR), SYM(";"), KW(TOK_PRNL)>>
ForLineOut ==
    <<Item("dec", 1, ""), Item("ch", 0, " "), Item("dec", 2, ""), Item("ch", 0, " "),
      Item("dec", 3, ""), Item("ch", 0, " "), Item("dec", 4, ""), Item("ch", 0, " "),
      Item("ch", 0, "\n")>>

(* word q[2] = {1, 2} ; *)
QDecl == LArr(TOK_WORD, V("q"), 2, <<NUM(1), SYM(","), NUM(2)>>) \o <<SYM(";")>>

MenuBare ==
    { LWord(V("i"), <<NUM(0)>>) \o <<SYM(";")>>
        \o LFor(V("i"), <<NUM(FORFRAME_W - 1)>>, <<NUM(FORFRAME_W)>>)
        \o <<SYM(";"), KW(TOK_IF), NUM(1), SYM(";"), KW(TOK_ENDFOR)>>,
      <<KW(TOK_ELSE)>>,
      <<KW(TOK_WHILE), NUM(1), SYM(";"), KW(TOK_ENDIF)>>,
      ForLine,
      QDecl \o <<KW(TOK_PRDEC), V("q"), SYM("["), NUM(0), O("-"), NUM(1), SYM("]")>>,
      QDecl \o <<V("q"), SYM("["), NUM(0), O("-"), NUM(1), SYM("]"), SYM("="), NUM(5)>>,
      QDecl \o <<KW(TOK_PRDEC), V("q"), SYM("["), NUM(2), SYM("]")>>,
      QDecl \o <<V("q"), SYM("["), NUM(2), SYM("]"), SYM("="), NUM(5)>>,
      LArr(TOK_WORD, V("z"), 0, <<NUM(7)>>),
      <<KW(TOK_BYTE), V("y"), SYM("["), NUM(0), O("-"), NUM(2), SYM("]"), SYM("="),
        SYM("{"), NUM(7), SYM("}")>>,
      <<KW(TOK_PRDEC), NUM(7), O("/"), NUM(0)>>,
      <<KW(TOK_PRDEC), NUM(1), O("+"), NUM(6), O("%"), SYM("("), NUM(2), O("-"), NUM(2),
        SYM(")")>> }

(* A counting loop that prints, and the loop variable printed after it *)
ProgEq ==
    << LWord(V("i"), <<NUM(0)>>),
       LFor(V("i"), <<NUM(1)>>, <<NUM(2)>>),
       <<KW(TOK_PRDEC), V("i")>>,
       <<KW(TOK_ENDFOR)>>,
       <<KW(TOK_PRDEC), V("i")>>,
       <<KW(TOK_END)>> >>
MenuEq == { CompLine, <<KW(TOK_RUN)>> }

(* An if with two else statements *)
ProgElse ==
    << <<KW(TOK_IF), NUM(1)>>,
       <<KW(TOK_PRDEC), NUM(1)>>,
       <<KW(TOK_ELSE)>>,
       <<KW(TOK_PRDEC), NUM(2)>>,
       <<KW(TOK_ELSE)>>,
       <<KW(TOK_ENDIF)>>,
       <<KW(TOK_END)>> >>
MenuElse == { CompLine, <<KW(TOK_RUN)>> }

(* A program that calls a subroutine it does not define *)
ProgLink == << LCall("foo", <<>>), <<KW(TOK_END)>> >>
MenuLink == { CompLine }

(* A main program, a subroutine and a function that print *)
ProgBrk ==
    << <<KW(TOK_PRDEC), NUM(1), SYM(";"), KW(TOK_PRDEC), NUM(2)>>,
       <<KW(TOK_END)>>,
       LSub("s", <<>>),
       <<KW(TOK_PRDEC), NUM(3), SYM(";"), KW(TOK_PRDEC), NUM(4)>>,
       <<KW(TOK_ENDSUBR)>>,
       LSub("f", <<>>),
       <<KW(TOK_PRDEC), NUM(5), SYM(";"), KW(TOK_RET), NUM(6)>> >>
MenuBrk ==
    { <<KW(TOK_RUN)>>, LCall("s", <<>>), <<KW(TOK_PRDEC), V("f"), SYM("("), SYM(")")>> }

Scenarios ==
    { [prog |-> ProgScope, menu |-> MenuScope],
      [prog |-> ProgClear, menu |-> MenuClear],
      [prog |-> ProgArr, menu |-> MenuArr],
      [prog |-> ProgRet, menu |-> MenuRet],
      [prog |-> ProgWarm, menu |-> MenuWarm],
      [prog |-> ProgCtl, menu |-> MenuCtl],
      [prog |-> ProgBare, menu |-> MenuBare],
      [prog |-> ProgElse, menu |-> MenuElse],
      [prog |-> ProgEq, menu |-> MenuEq],
      [prog |-> ProgLink, menu |-> MenuLink],
      [prog |-> ProgBrk, menu |-> MenuBrk] }

ProgramOf(ls) == [i \in 1..Len(ls) |-> ls[i].line]
MenuFor(sc, ls) == UNION {x.menu : x \in {y \in sc : y.prog = ProgramOf(ls)}}

MaxInputs == 3

(* The stop requests of a session: one, seen during the first line     *)
(* typed after a program that prints, or none.                         *)
MaxPolls == 3
StopChoices ==
    IF ProgramOf(lines) = ProgBrk /\ inputs = 0
    THEN {NoStop} \cup {[at |-> k, held |-> h] : k \in 1..MaxPolls, h \in BOOLEAN}
    ELSE {NoStop}

(* ------------------------------------------------------------------ *)
(* The session                                                          *)
(* ------------------------------------------------------------------ *)
Init ==
    /\ lines = <<>> /\ freed = {} /\ program = 0 /\ lnbuf = <<>> /\ readbuf = <<>>
    /\ current = 0 /\ counter = 0 /\ txtPtr = TxtAddr(0, 1)
    /\ operand_stack = [i \in 0..(STACKSZ - 1) |-> 0]
    /\ operator_stack = [i \in 0..(STACKSZ - 1) |-> 0]
    /\ return_stack = [i \in 0..(RETSTACKSZ - 1) |-> 0]
    /\ operatorSP = 0 /\ operandSP = 0 /\ returnSP = RETSTACKSZ - 1
    /\ skipFlag = 0 /\ calllevel = 1 /\ retregister = 0
    /\ vars = <<>> /\ varsbegin = 0 /\ varsend = 0 /\ varslocal = 0
    /\ compile = 0 /\ compilingsub = 0 /\ onlyconstants = 0 /\ compiletimelookup = 0
    /\ rtPC = 0 /\ rtSP = 0 /\ rtFP = 0 /\ rtPCBeforeEval = 0
    /\ code = <<>> /\ subs = <<>> /\ calls = <<>>
    /\ pc = "prompt" /\ status = 0 /\ hostStack = <<>> /\ halt = "none"
    /\ out = <<>> /\ ub \in {"benign", "wild"} /\ inputs = 0 /\ stop = NoStop
    /\ file = NoFile /\ editmode = 0 /\ log = LogInit

AtPrompt == pc = "prompt" /\ halt = "none"
Parsing == pc = "parse" /\ halt = "none"
AtKw(toks) == Parsing /\ StmtKind(S) = "kw" /\ matchstatement(SkipSemi(S)) \in toks

EnterProgram ==
    /\ AtPrompt /\ inputs = 0 /\ lines = <<>>
    /\ \E x \in Scenarios : Commit(StoreProgram(S, x.prog))

GetLine ==
    /\ AtPrompt /\ lines # <<>> /\ inputs < MaxInputs
    /\ \E l \in MenuFor(Scenarios, lines), k \in StopChoices :
          Commit([ReadLine(S, l) EXCEPT !.stop = k])

Interrupt == Parsing /\ StmtKind(S) = "brk" /\ Commit(Statement(S))
EndOfLine == Parsing /\ StmtKind(S) = "eol" /\ Commit(Statement(S))
SkipStatement == Parsing /\ StmtKind(S) = "skip" /\ Commit(Statement(S))
DoComment == AtKw({TOK_COMM}) /\ Commit(Statement(S))
DoPrMsg == AtKw({TOK_PRMSG}) /\ Commit(Statement(S))
ReadFreed == Parsing /\ StmtKind(S) = "fault" /\ Commit(Statement(S))
DoLet == Parsing /\ StmtKind(S) = "let" /\ Commit(Statement(S))
DoPrint == AtKw({TOK_PRDEC, TOK_PRDEC_S, TOK_PRNL, TOK_PRCH}) /\ Commit(Statement(S))
DoClear == AtKw({TOK_CLEAR}) /\ Commit(Statement(S))
DoNew == AtKw({TOK_NEW}) /\ Commit(Statement(S))
DoDeclare == AtKw({TOK_WORD, TOK_BYTE}) /\ Commit(Statement(S))
DoRun == AtKw({TOK_RUN}) /\ Commit(Statement(S))
DoCompile == AtKw({TOK_COMPILE}) /\ Commit(Statement(S))
DoSub == AtKw({TOK_SUBR}) /\ Commit(Statement(S))
DoEndsub == AtKw({TOK_ENDSUBR}) /\ Commit(Statement(S))
DoCall == AtKw({TOK_CALL}) /\ Commit(Statement(S))
DoReturn == AtKw({TOK_RET}) /\ Commit(Statement(S))
DoIf == AtKw({TOK_IF}) /\ Commit(Statement(S))
DoElse == AtKw({TOK_ELSE}) /\ Commit(Statement(S))
DoEndif == AtKw({TOK_ENDIF}) /\ Commit(Statement(S))
DoFor == AtKw({TOK_FOR}) /\ Commit(Statement(S))
DoEndfor == AtKw({TOK_ENDFOR}) /\ Commit(Statement(S))
DoWhile == AtKw({TOK_WHILE}) /\ Commit(Statement(S))
DoEndwhile == AtKw({TOK_ENDW}) /\ Commit(Statement(S))
DoEnd == AtKw({TOK_END}) /\ Commit(Statement(S))
RunLoop == pc = "ret" /\ halt = "none" /\ hostStack # <<>> /\ Commit(RunLoopStep(S))
MainLoop == pc = "ret" /\ halt = "none" /\ hostStack = <<>> /\ Commit(Do("MainAfterParse", S, <<>>))
WarmReset == halt = "jmp" /\ Commit(Restart(S))

Next ==
    \/ EnterProgram \/ GetLine
    \/ Interrupt \/ EndOfLine \/ SkipStatement \/ ReadFreed \/ DoLet \/ DoPrint \/ DoClear \/ DoNew
    \/ DoDeclare \/ DoRun \/ DoCompile \/ DoSub \/ DoEndsub \/ DoCall \/ DoReturn
    \/ DoIf \/ DoElse \/ DoEndif \/ DoFor \/ DoEndfor \/ DoWhile \/ DoEndwhile \/ DoEnd
    \/ RunLoop \/ MainLoop \/ WarmReset

Spec == Init /\ [][Next]_allvars

(* ------------------------------------------------------------------ *)
(* The session of the file commands: a program typed into the editor   *)
(* or a file put on the disk, then :w and :r                            *)
(* ------------------------------------------------------------------ *)
MaxLines == 3
MaxFileLen == 4
MaxFileOps == 2
A254 == [i \in 1..(BufSz - 1) |-> "a"]
A255 == [i \in 1..BufSz |-> "a"]
TextLines == {<<>>, <<"a">>, <<"b", "a">>, A254, A255}
TextPrograms == UNION {[1..n -> TextLines] : n \in 0..MaxLines}
Files == UNION {[1..n -> {"a", LF, CR}] : n \in 0..MaxFileLen}
LoadLine == <<KW(TOK_LOAD), Tok("str", 0, <<"f">>)>>
SaveLine == <<KW(TOK_SAVE), Tok("str", 0, <<"f">>)>>

FileEdit ==
    /\ AtPrompt /\ inputs = 0 /\ log.io.last = "none"
    /\ \E p \in TextPrograms : Commit(LogIo(StoreProgram(S, p), "edit"))

PutFile ==
    /\ AtPrompt /\ inputs = 0 /\ log.io.last = "none"
    /\ \E f \in Files :
          Commit([S EXCEPT !.file = [exists |-> TRUE, data |-> f],
                           !.log.io = [last |-> "put", origin |-> "put", text |-> <<>>]])

FileGetLine ==
    /\ AtPrompt /\ inputs < MaxFileOps /\ log.io.last # "none"
    /\ \E l \in {LoadLine, SaveLine} : Commit(ReadLine(S, l))

DoLoad == AtKw({TOK_LOAD}) /\ Commit(Statement(S))
DoSave == AtKw({TOK_SAVE}) /\ Commit(Statement(S))

FileNext ==
    \/ FileEdit \/ PutFile \/ FileGetLine \/ DoLoad \/ DoSave \/ EndOfLine \/ MainLoop

FileSpec == Init /\ [][FileNext]_allvars

(* ------------------------------------------------------------------ *)
(* The session of the editor: a stored program, then :a and :i and the *)
(* lines typed in the edit modes                                       *)
(* ------------------------------------------------------------------ *)
MaxEdits == 4
EditPrograms == UNION {[1..n -> {<<"a">>, <<"b", "a">>}] : n \in 0..2}
EditCommands ==
    { <<KW(TOK_APP), NUM(1)>>, <<KW(TOK_APP), NUM(3)>>,
      <<KW(TOK_INS), NUM(0)>>, <<KW(TOK_INS), NUM(1)>>, <<KW(TOK_INS), NUM(2)>>,
      <<KW(TOK_INS), NUM(4)>> }
EditTexts == {<<".">>, <<>>, <<"a">>, <<".", "a">>}

EditStart ==
    /\ AtPrompt /\ inputs = 0 /\ log.io.last = "none"
    /\ \E p \in EditPrograms : Commit(LogIo(StoreProgram(S, p), "edit"))

EditCommand ==
    /\ AtPrompt /\ editmode = 0 /\ inputs < MaxEdits /\ log.io.last # "none"
    /\ \E l \in EditCommands : Commit(ReadLine(S, l))

EditText ==
    /\ AtPrompt /\ editmode # 0 /\ inputs < MaxEdits
    /\ \E l \in EditTexts : Commit(LogEd(S, EditLine(S, l), l))

DoAppend == AtKw({TOK_APP}) /\ Commit(Statement(S))
DoInsert == AtKw({TOK_INS}) /\ Commit(Statement(S))

EditNext ==
    \/ EditStart \/ EditCommand \/ EditText \/ DoAppend \/ DoInsert \/ EndOfLine
    \/ MainLoop

EditSpec == Init /\ [][EditNext]_allvars


(* ------------------------------------------------------------------ *)
(* The session of the conditionals: one line of nested if, else and    *)
(* endif typed at the prompt, each body a pr.dec of its own number     *)
(* ------------------------------------------------------------------ *)
IfGuards == {0, 1, 256}
St(k, v) == [k |-> k, v |-> v]

(* if a ; 1 ; if b ; 2 ; else ; 3 ; endif ; else ; 4 ; if c ; 5 ;      *)
(* endif ; endif ; 6                                                   *)
IfStmts(g) ==
    << St("if", g[1]), St("pr", 1), St("if", g[2]), St("pr", 2), St("else", 0),
       St("pr", 3), St("endif", 0), St("else", 0), St("pr", 4), St("if", g[3]),
       St("pr", 5), St("endif", 0), St("endif", 0), St("pr", 6) >>

StmtToks(st) ==
    IF st.k = "if" THEN <<KW(TOK_IF), NUM(st.v)>>
    ELSE IF st.k = "pr" THEN <<KW(TOK_PRDEC), NUM(st.v)>>
    ELSE IF st.k = "else" THEN <<KW(TOK_ELSE)>>
    ELSE <<KW(TOK_ENDIF)>>

RECURSIVE JoinStmts(_)
JoinStmts(sts) ==
    IF sts = <<>> THEN <<>>
    ELSE IF Len(sts) = 1 THEN StmtToks(sts[1])
    ELSE StmtToks(sts[1]) \o <<SYM(";")>> \o JoinStmts(Tail(sts))

IfLine(g) == JoinStmts(IfStmts(g))

(* The reference: a statement is executed when every enclosing if has  *)
(* selected the branch the statement is in.                            *)
Selected(stk) == \A k \in 1..Len(stk) : stk[k].sel # stk[k].inElse

RECURSIVE RefIf(_, _, _)
RefIf(sts, stk, acc) ==
    IF sts = <<>> THEN acc
    ELSE LET st == sts[1]
         IN IF st.k = "if"
            THEN RefIf(Tail(sts), Append(stk, [sel |-> st.v # 0, inElse |-> FALSE]), acc)
            ELSE IF st.k = "else"
            THEN RefIf(Tail(sts), [stk EXCEPT ![Len(stk)].inElse = TRUE], acc)
            ELSE IF st.k = "endif"
            THEN RefIf(Tail(sts), SubSeq(stk, 1, Len(stk) - 1), acc)
            ELSE RefIf(Tail(sts), stk,
                       IF Selected(stk) THEN Append(acc, Item("dec", st.v, "")) ELSE acc)

IfGetLine ==
    /\ AtPrompt /\ inputs = 0
    /\ \E g \in [1..3 -> IfGuards] : Commit(ReadLine(S, IfLine(g)))

IfNext ==
    \/ IfGetLine \/ DoIf \/ DoElse \/ DoEndif \/ DoPrint \/ SkipStatement \/ EndOfLine
    \/ MainLoop

IfSpec == Init /\ [][IfNext]_allvars

(* ------------------------------------------------------------------ *)
(* The session of the skipped regions: two functions stored, and lines *)
(* whose skipped regions hold if and while statements                  *)
(* ------------------------------------------------------------------ *)
MaxGuardLines == 2
CallF == <<V("f"), SYM("("), SYM(")")>>
CallG == <<V("g"), SYM("("), SYM(")")>>

(* sub f() / pr.dec 9 / return 1 / sub g() / return 0 *)
ProgGuard ==
    << LSub("f", <<>>),
       <<KW(TOK_PRDEC), NUM(9)>>,
       <<KW(TOK_RET), NUM(1)>>,
       LSub("g", <<>>),
       <<KW(TOK_RET), NUM(0)>> >>

Pr(n) == <<SYM(";"), KW(TOK_PRDEC), NUM(n)>>
Kw(k) == <<SYM(";"), KW(k)>>

MenuGuard ==
    { <<KW(TOK_IF), NUM(0), SYM(";"), KW(TOK_IF)>> \o CallF \o Pr(1) \o Kw(TOK_ENDIF)
          \o Pr(2) \o Kw(TOK_ENDIF) \o Pr(3),
      <<KW(TOK_IF), NUM(0), SYM(";"), KW(TOK_WHILE)>> \o CallG \o Kw(TOK_ENDW)
          \o Pr(2) \o Kw(TOK_ENDIF),
      <<KW(TOK_IF), NUM(0), SYM(";"), KW(TOK_IF), NUM(1)>> \o Pr(1) \o Kw(TOK_ENDIF)
          \o Pr(2) \o Kw(TOK_ENDIF) \o Pr(3),
      <<KW(TOK_WHILE), NUM(0), SYM(";"), KW(TOK_IF)>> \o CallF \o Kw(TOK_ENDIF)
          \o Pr(2) \o Kw(TOK_ENDW),
      <<KW(TOK_IF), NUM(1)>> \o Pr(1) \o Kw(TOK_ELSE) \o <<SYM(";"), KW(TOK_IF)>> \o CallG
          \o Pr(4) \o Kw(TOK_ENDIF) \o Pr(2) \o Kw(TOK_ENDIF) }

GuardEnter ==
    /\ AtPrompt /\ inputs = 0 /\ lines = <<>>
    /\ Commit(StoreProgram(S, ProgGuard))

GuardGetLine ==
    /\ AtPrompt /\ lines # <<>> /\ inputs < MaxGuardLines
    /\ \E l \in MenuGuard : Commit(ReadLine(S, l))

GuardNext ==
    \/ GuardEnter \/ GuardGetLine \/ DoIf \/ DoElse \/ DoEndif \/ DoWhile \/ DoEndwhile
    \/ DoPrint \/ SkipStatement \/ EndOfLine \/ MainLoop

GuardSpec == Init /\ [][GuardNext]_allvars

(* ------------------------------------------------------------------ *)
(* The session of the expressions: pr.dec of an expression over 5, 3   *)
(* and 2 with two binary operators, unary operators and parentheses    *)
(* ------------------------------------------------------------------ *)
ExprOps ==
    { O("*"), O("/"), O("^"), O("+"), O("-"), OP(<<"<", "<">>), O("<"), OP(<<"=", "=">>),
      O("&"), O("!"), O("|"), OP(<<"&", "&">>), OP(<<"|", "|">>) }
ExprUnary1 == { <<>>, <<O("-")>> }
ExprUnary2 == { <<>>, <<O("-")>>, <<O("!")>>, <<O("~")>>, <<O("-"), O("-")>> }

(* a o b p c, (a o b) p c, a o (b p c) and a o -(b p c) *)
ExprShapes(a, o, b, p) ==
    LET c == <<NUM(2)>>
    IN { a \o <<o>> \o b \o <<p>> \o c,
         <<SYM("(")>> \o a \o <<o>> \o b \o <<SYM(")"), p>> \o c,
         a \o <<o, SYM("(")>> \o b \o <<p>> \o c \o <<SYM(")")>>,
         a \o <<o, O("-"), SYM("(")>> \o b \o <<p>> \o c \o <<SYM(")")>> }

AllExprs ==
    UNION { ExprShapes(u \o <<NUM(5)>>, o, w \o <<NUM(3)>>, p) :
              u \in ExprUnary1, w \in ExprUnary2, o \in ExprOps, p \in ExprOps }

(* The reference evaluator: precedence climbing over the tokens.  A    *)
(* result is the value, the index of the next token and how the        *)
(* evaluation went: "ok", "div0" for a division by zero, "ub" for a    *)
(* shift count or an overflow that C leaves undefined.                 *)
RefRes(ok, v, i) == [ok |-> ok, v |-> v, i |-> i]

RefUnary(token, a) ==
    CASE token = TOK_UNM -> -a
      [] token = TOK_UNP -> a
      [] token = TOK_NOT -> Bool(a = 0)
      [] OTHER -> BitNot(a)

(* The largest int of the build *)
IntMax == Pow2(30) - 1 + Pow2(30)

(* x to the power y, "ub" when a product leaves the range of int *)
RECURSIVE RefPow(_, _, _, _)
RefPow(x, y, i, ret) ==
    IF i >= y THEN RefRes("ok", ret, 0)
    ELSE IF x # 0 /\ Abs(ret) > IntMax \div Abs(x) THEN RefRes("ub", 0, 0)
    ELSE RefPow(x, y, i + 1, ret * x)

RefBinary(token, a, b) ==
    IF token \in {TOK_DIV, TOK_MOD} /\ b = 0 THEN RefRes("div0", 0, 0)
    ELSE IF token \in {TOK_LSH, TOK_RSH} /\ ~ShiftOk(b) THEN RefRes("ub", 0, 0)
    ELSE IF token = TOK_POW THEN RefPow(a, b, 0, 1)
    ELSE RefRes("ok", BinaryResult([ub |-> "benign"], token, a, b), 0)

RefTok(toks, i) == IF i <= Len(toks) THEN toks[i] ELSE EOL

RECURSIVE RefPrimary(_, _), RefLoop(_, _, _)

(* An expression of operators of precedence minprec or higher *)
RefExpr(toks, i, minprec) == RefLoop(toks, RefPrimary(toks, i), minprec)

RefPrimary(toks, i) ==
    IF RefTok(toks, i).t = "num" THEN RefRes("ok", RefTok(toks, i).v, i + 1)
    ELSE IF IsSym(RefTok(toks, i), "(")
    THEN LET r == RefExpr(toks, i + 1, 1)
         IN RefRes(r.ok, r.v, r.i + 1)
    ELSE LET r == RefPrimary(toks, i + 1)
         IN RefRes(r.ok, RefUnary(unary(RefTok(toks, i)), r.v), r.i)

(* The operators that follow the left operand lhs; the right operand   *)
(* of an operator holds the operators of higher precedence only.       *)
RefLoop(toks, lhs, minprec) ==
    LET op == binary(RefTok(toks, lhs.i))
    IN IF lhs.ok # "ok" \/ op = ILLEGAL \/ getprecedence(op) < minprec THEN lhs
       ELSE LET rhs == RefExpr(toks, lhs.i + 1, getprecedence(op) + 1)
                v == RefBinary(op, lhs.v, rhs.v)
            IN IF rhs.ok # "ok" THEN rhs
               ELSE RefLoop(toks, RefRes(v.ok, v.v, rhs.i), minprec)

RefEval(toks) == RefExpr(toks, 1, 1)

(* The expressions whose value C defines *)
Exprs == {e \in AllExprs : RefEval(e).ok # "ub"}

ExprGetLine ==
    /\ AtPrompt /\ inputs = 0
    /\ \E e \in Exprs : Commit(ReadLine(S, <<KW(TOK_PRDEC)>> \o e))

ExprNext == ExprGetLine \/ DoPrint \/ EndOfLine \/ MainLoop

ExprSpec == Init /\ [][ExprNext]_allvars

(* ------------------------------------------------------------------ *)
(* The session of the compiled operators: a program of one pr.dec of   *)
(* one operator applied to literals, compiled                          *)
(* ------------------------------------------------------------------ *)
BinaryOpToks ==
    { O("^"), O("/"), O("%"), O("*"), O("+"), O("-"), O(">"), O("<"), O("&"), O("|"),
      O("!"), OP(<<"=", "=">>), OP(<<"!", "=">>), OP(<<">", "=">>), OP(<<"<", "=">>),
      OP(<<"&", "&">>), OP(<<"|", "|">>), OP(<<"<", "<">>), OP(<<">", ">">>) }
UnaryOpToks == { O("-"), O("+"), O("!"), O("~"), O("*"), O("^") }

OpPrograms ==
    { << <<KW(TOK_PRDEC), NUM(5), o, NUM(3)>>, <<KW(TOK_END)>> >> : o \in BinaryOpToks }
        \cup { << <<KW(TOK_PRDEC), o, NUM(3)>>, <<KW(TOK_END)>> >> : o \in UnaryOpToks }

OpEnter ==
    /\ AtPrompt /\ inputs = 0 /\ lines = <<>>
    /\ \E p \in OpPrograms : Commit(StoreProgram(S, p))

OpGetLine ==
    /\ AtPrompt /\ lines # <<>> /\ inputs = 0
    /\ Commit(ReadLine(S, CompLine))

OpNext ==
    \/ OpEnter \/ OpGetLine \/ DoCompile \/ DoPrint \/ DoEnd \/ EndOfLine \/ RunLoop
    \/ MainLoop

OpSpec == Init /\ [][OpNext]_allvars

(* ------------------------------------------------------------------ *)
(* The session of the function without return: a program that prints   *)
(* the value of a function whose body runs into endsub                 *)
(* ------------------------------------------------------------------ *)
MaxFallLines == 2

(* pr.dec f() / pr.dec 3 / end / sub f() / pr.dec 1 / endsub *)
ProgFall ==
    << <<KW(TOK_PRDEC)>> \o CallF,
       <<KW(TOK_PRDEC), NUM(3)>>,
       <<KW(TOK_END)>>,
       LSub("f", <<>>),
       <<KW(TOK_PRDEC), NUM(1)>>,
       <<KW(TOK_ENDSUBR)>> >>

MenuFall ==
    { <<KW(TOK_RUN)>>,
      <<KW(TOK_PRDEC)>> \o CallF,
      <<KW(TOK_PRDEC)>> \o CallF \o Pr(3),
      <<KW(TOK_PRDEC)>> \o CallF \o <<O("+"), NUM(2)>> }

FallEnter ==
    /\ AtPrompt /\ inputs = 0 /\ lines = <<>>
    /\ Commit(StoreProgram(S, ProgFall))

FallGetLine ==
    /\ AtPrompt /\ lines # <<>> /\ inputs < MaxFallLines
    /\ \E l \in MenuFall : Commit(ReadLine(S, l))

FallNext ==
    \/ FallEnter \/ FallGetLine \/ DoRun \/ DoPrint \/ DoEnd \/ EndOfLine \/ RunLoop
    \/ MainLoop \/ WarmReset

FallSpec == Init /\ [][FallNext]_allvars

(* ------------------------------------------------------------------ *)
(* The session of the arguments: subroutines that pass an expression   *)
(* over a local and a function value to another subroutine             *)
(* ------------------------------------------------------------------ *)
MaxArgLines == 2

(* sub f() / return 1 / sub k(word a) / pr.dec a / return 0 /          *)
(* sub h() / word x = 5 / call k(x + f()) / return 0 /                 *)
(* sub j() / word x = 5 / call k(f() + x) / return 0                   *)
ProgArg ==
    << LSub("f", <<>>),
       <<KW(TOK_RET), NUM(1)>>,
       LSub("k", <<KW(TOK_WORD), V("a")>>),
       <<KW(TOK_PRDEC), V("a")>>,
       <<KW(TOK_RET), NUM(0)>>,
       LSub("h", <<>>),
       LWord(V("x"), <<NUM(5)>>),
       LCall("k", <<V("x"), O("+")>> \o CallF),
       <<KW(TOK_RET), NUM(0)>>,
       LSub("j", <<>>),
       LWord(V("x"), <<NUM(5)>>),
       LCall("k", CallF \o <<O("+"), V("x")>>),
       <<KW(TOK_RET), NUM(0)>> >>

MenuArg == { LWord(V("x"), <<NUM(7)>>), LCall("h", <<>>), LCall("j", <<>>) }

ArgEnter ==
    /\ AtPrompt /\ inputs = 0 /\ lines = <<>>
    /\ Commit(StoreProgram(S, ProgArg))

ArgGetLine ==
    /\ AtPrompt /\ lines # <<>> /\ inputs < MaxArgLines
    /\ \E l \in MenuArg : Commit(ReadLine(S, l))

ArgNext ==
    \/ ArgEnter \/ ArgGetLine \/ DoDeclare \/ DoCall \/ DoReturn \/ DoPrint \/ EndOfLine
    \/ RunLoop \/ MainLoop

ArgSpec == Init /\ [][ArgNext]_allvars

(* ------------------------------------------------------------------ *)
(* The session of the counted loops: one line that declares i and n,   *)
(* loops i from a start to n, and in the body prints i and changes n   *)
(* ------------------------------------------------------------------ *)
CountStarts == {0, 1, 3}
CountEnds == {-2, 0, 1, 2, 4}
NumExpr(k) == IF k < 0 THEN Neg(0 - k) ELSE <<NUM(k)>>

(* word i = 0; word n = e; for i = b : n; pr.dec i; n = 9; endfor; pr.dec 77 *)
CountLine(b, e) ==
    LWord(V("i"), <<NUM(0)>>) \o <<SYM(";")>> \o LWord(V("n"), NumExpr(e)) \o <<SYM(";")>>
        \o LFor(V("i"), NumExpr(b), <<V("n")>>) \o <<SYM(";"), KW(TOK_PRDEC), V("i")>>
        \o <<SYM(";"), V("n"), SYM("="), NUM(9)>> \o Kw(TOK_ENDFOR) \o Pr(77)

CountGetLine ==
    /\ AtPrompt /\ inputs = 0
    /\ \E b \in CountStarts, e \in CountEnds : Commit(ReadLine(S, CountLine(b, e)))

CountNext ==
    \/ CountGetLine \/ DoDeclare \/ DoFor \/ DoPrint \/ DoLet \/ DoEndfor \/ EndOfLine
    \/ MainLoop

CountSpec == Init /\ [][CountNext]_allvars

(* ------------------------------------------------------------------ *)
(* The session of the while loops: a counted loop, two nested loops    *)
(* and a loop in a skipped region typed on one line, and a stored      *)
(* program with a loop over several lines                              *)
(* ------------------------------------------------------------------ *)
WhileCounts == 0..3
Dec(x) == <<SYM(";"), x, SYM("="), x, O("-"), NUM(1)>>

(* word n = k; while n; pr.dec n; n = n - 1; endw; pr.dec 77 *)
WhileLine(k) ==
    LWord(V("n"), <<NUM(k)>>) \o <<SYM(";"), KW(TOK_WHILE), V("n")>>
        \o <<SYM(";"), KW(TOK_PRDEC), V("n")>> \o Dec(V("n")) \o Kw(TOK_ENDW) \o Pr(77)

(* word n = k; word m = 0; while n; m = 2; while m; pr.dec m; m = m - 1; *)
(* endw; n = n - 1; endw; pr.dec 77                                       *)
NestedLine(k) ==
    LWord(V("n"), <<NUM(k)>>) \o <<SYM(";")>> \o LWord(V("m"), <<NUM(0)>>)
        \o <<SYM(";"), KW(TOK_WHILE), V("n")>> \o <<SYM(";"), V("m"), SYM("="), NUM(2)>>
        \o <<SYM(";"), KW(TOK_WHILE), V("m")>> \o <<SYM(";"), KW(TOK_PRDEC), V("m")>>
        \o Dec(V("m")) \o Kw(TOK_ENDW) \o Dec(V("n")) \o Kw(TOK_ENDW) \o Pr(77)

(* if 0; while 1; pr.dec 5; endw; endif; pr.dec 77 *)
SkippedLine ==
    <<KW(TOK_IF), NUM(0), SYM(";"), KW(TOK_WHILE), NUM(1)>> \o Pr(5) \o Kw(TOK_ENDW)
        \o Kw(TOK_ENDIF) \o Pr(77)

WhileLines ==
    {WhileLine(k) : k \in WhileCounts} \cup {NestedLine(k) : k \in WhileCounts}
        \cup {SkippedLine}

(* word n = 2 / while n / pr.dec n / n = n - 1 / endw / pr.dec 77 / end *)
ProgWhile ==
    << LWord(V("n"), <<NUM(2)>>),
       <<KW(TOK_WHILE), V("n")>>,
       <<KW(TOK_PRDEC), V("n")>>,
       <<V("n"), SYM("="), V("n"), O("-"), NUM(1)>>,
       <<KW(TOK_ENDW)>>,
       <<KW(TOK_PRDEC), NUM(77)>>,
       <<KW(TOK_END)>> >>

WhileEnter ==
    /\ AtPrompt /\ inputs = 0 /\ lines = <<>>
    /\ Commit(StoreProgram(S, ProgWhile))

WhileGetLine ==
    /\ AtPrompt /\ inputs = 0
    /\ \E l \in IF lines = <<>> THEN WhileLines ELSE {<<KW(TOK_RUN)>>} :
          Commit(ReadLine(S, l))

WhileNext ==
    \/ WhileEnter \/ WhileGetLine \/ DoDeclare \/ DoWhile \/ DoEndwhile \/ DoLet \/ DoPrint
    \/ DoIf \/ DoEndif \/ SkipStatement \/ DoRun \/ DoEnd \/ EndOfLine \/ RunLoop \/ MainLoop

WhileSpec == Init /\ [][WhileNext]_allvars

(* ------------------------------------------------------------------ *)
(* The session of the linker: programs of one call and two subroutine  *)
(* definitions over names of which one is a prefix of another and two  *)
(* agree in their first eight characters, compiled                     *)
(* ------------------------------------------------------------------ *)
SubNames ==
    { <<"a", "b">>, <<"f", "o", "o">>, <<"f", "o", "o", "b", "a", "r">>,
      <<"s", "u", "b", "r", "o", "u", "t", "i", "n", "e", "1">>,
      <<"s", "u", "b", "r", "o", "u", "t", "i", "n", "e", "2">> }

(* call c() / end / sub d1() / return 1 / sub d2() / return 2 *)
LinkProgram(c, d1, d2) ==
    << <<KW(TOK_CALL), ID(c), SYM("("), SYM(")")>>,
       <<KW(TOK_END)>>,
       <<KW(TOK_SUBR), ID(d1), SYM("("), SYM(")")>>,
       <<KW(TOK_RET), NUM(1)>>,
       <<KW(TOK_SUBR), ID(d2), SYM("("), SYM(")")>>,
       <<KW(TOK_RET), NUM(2)>> >>

LinkPrograms ==
    {LinkProgram(c, d1, d2) : c \in SubNames, d1 \in SubNames, d2 \in SubNames}

LinkEnter ==
    /\ AtPrompt /\ inputs = 0 /\ lines = <<>>
    /\ \E p \in LinkPrograms : Commit(StoreProgram(S, p))

LinkGetLine ==
    /\ AtPrompt /\ lines # <<>> /\ inputs = 0
    /\ Commit(ReadLine(S, CompLine))

LinkNext ==
    \/ LinkEnter \/ LinkGetLine \/ DoCompile \/ DoCall \/ DoSub \/ DoReturn \/ DoEnd
    \/ EndOfLine \/ RunLoop \/ MainLoop

LinkSpec == Init /\ [][LinkNext]_allvars

(* ------------------------------------------------------------------ *)
(* The session of the formal parameters: a call with literal arguments *)
(* and a subroutine whose formals are words, bytes and array           *)
(* references, compiled                                                *)
(* ------------------------------------------------------------------ *)
MaxFormals == 3
FormalKinds == {"word", "byte", "word[]", "byte[]"}
FormalLists == UNION {[1..n -> FormalKinds] : n \in 0..MaxFormals}
FormalNames == <<"a", "b", "c", "d">>

FormalToks(kind, name) ==
    <<KW(IF kind \in {"word", "word[]"} THEN TOK_WORD ELSE TOK_BYTE), V(name)>>
        \o (IF kind \in {"word[]", "byte[]"} THEN <<SYM("["), SYM("]")>> ELSE <<>>)

RECURSIVE CommaList(_, _)
CommaList(items, i) ==
    IF i > Len(items) THEN <<>>
    ELSE items[i] \o (IF i < Len(items) THEN <<SYM(",")>> ELSE <<>>) \o CommaList(items, i + 1)

(* call p(1, 2, ...) / end / sub p(formals) / return 0 *)
FormalProgram(ks) ==
    << <<KW(TOK_CALL), V("p"), SYM("(")>>
           \o CommaList([i \in 1..Len(ks) |-> <<NUM(i)>>], 1) \o <<SYM(")")>>,
       <<KW(TOK_END)>>,
       <<KW(TOK_SUBR), V("p"), SYM("(")>>
           \o CommaList([i \in 1..Len(ks) |-> FormalToks(ks[i], FormalNames[i])], 1)
           \o <<SYM(")")>>,
       <<KW(TOK_RET), NUM(0)>> >>

FormalEnter ==
    /\ AtPrompt /\ inputs = 0 /\ lines = <<>>
    /\ \E ks \in FormalLists : Commit(StoreProgram(S, FormalProgram(ks)))

FormalGetLine ==
    /\ AtPrompt /\ lines # <<>> /\ inputs = 0
    /\ Commit(ReadLine(S, CompLine))

FormalNext ==
    \/ FormalEnter \/ FormalGetLine \/ DoCompile \/ DoCall \/ DoSub \/ DoReturn \/ DoEnd
    \/ EndOfLine \/ RunLoop \/ MainLoop

FormalSpec == Init /\ [][FormalNext]_allvars

(* ------------------------------------------------------------------ *)
(* The session of the string initializers: one declaration of an array *)
(* of n bytes or words with a string of k letters                      *)
(* ------------------------------------------------------------------ *)
MaxDim == 4
MaxStr == 4
Strings == {SubSeq(Letters, 1, k) : k \in 0..MaxStr}

(* byte s[n] = "chars"  or  word s[n] = "chars" *)
StrLine(kw, n, chars) ==
    <<KW(kw), V("s"), SYM("["), NUM(n), SYM("]"), SYM("="), Tok("str", 0, chars)>>

StrGetLine ==
    /\ AtPrompt /\ inputs = 0
    /\ \E kw \in {TOK_BYTE, TOK_WORD}, n \in 1..MaxDim, chars \in Strings :
          Commit(ReadLine(S, StrLine(kw, n, chars)))

StrNext == StrGetLine \/ DoDeclare \/ EndOfLine \/ MainLoop

StrSpec == Init /\ [][StrNext]_allvars

(* ------------------------------------------------------------------ *)
(* The session of the comments: one line typed at the prompt,          *)
(*   if g ; ' x ; A ; B ; pr.dec 2 ; endif                             *)
(* where A and B are statements written inside the comment             *)
(* ------------------------------------------------------------------ *)
CommGuards == {0, 1}
InComment ==
    {Kw(TOK_ENDIF), Kw(TOK_ELSE), Pr(1), <<SYM(";"), KW(TOK_WHILE), NUM(0)>>, Kw(TOK_ENDW)}

CommLine(g, a, b) ==
    <<KW(TOK_IF), NUM(g), SYM(";"), KW(TOK_COMM), V("x")>> \o a \o b \o Pr(2)
        \o Kw(TOK_ENDIF)

CommGetLine ==
    /\ AtPrompt /\ inputs = 0
    /\ \E g \in CommGuards, a \in InComment, b \in InComment :
          Commit(ReadLine(S, CommLine(g, a, b)))

CommNext ==
    \/ CommGetLine \/ DoIf \/ DoComment \/ DoElse \/ DoEndif \/ DoWhile \/ DoEndwhile
    \/ DoPrint \/ SkipStatement \/ EndOfLine \/ MainLoop

CommSpec == Init /\ [][CommNext]_allvars

(* ------------------------------------------------------------------ *)
(* The session of the nested expressions: one line typed at the prompt, *)
(* pr.dec of an expression nested d deep                                *)
(* ------------------------------------------------------------------ *)
MaxDepth == 16
MaxFlat == 6

RECURSIVE Rep(_, _)
Rep(x, d) == IF d = 0 THEN <<>> ELSE x \o Rep(x, d - 1)

(* 1 || 1 && 1 | 1 ! 1 & 1 == 1 < 1 << 1 + 1 * 1: every operator binds *)
(* tighter than the one before it                                      *)
LadderOps ==
    <<OP(<<"|", "|">>), OP(<<"&", "&">>), O("|"), O("!"), O("&"), OP(<<"=", "=">>), O("<"),
      OP(<<"<", "<">>), O("+"), O("*")>>
RECURSIVE Ladder(_)
Ladder(d) ==
    IF d = 0 THEN <<NUM(1)>>
    ELSE Ladder(d - 1) \o <<LadderOps[((d - 1) % Len(LadderOps)) + 1], NUM(1)>>

NestOps == {O("+"), O("*"), OP(<<"|", "|">>)}

(* - - - 1, 1 o - ( 1 o - ( 1 ) ) after up to two unary minus, and up   *)
(* to MaxFlat ( ( ( 1 ) ) ) and the ladder                             *)
NestExprs(d) ==
    { Rep(<<O("-")>>, d) \o <<NUM(1)>> }
        \cup (IF d <= MaxFlat
              THEN { Rep(<<SYM("(")>>, d) \o <<NUM(1)>> \o Rep(<<SYM(")")>>, d), Ladder(d) }
              ELSE {})
        \cup { Rep(<<O("-")>>, k) \o Rep(<<NUM(1), o, O("-"), SYM("(")>>, d) \o <<NUM(1)>>
                    \o Rep(<<SYM(")")>>, d) : o \in NestOps, k \in 0..2 }

NestLine(e) == <<KW(TOK_PRDEC)>> \o e

NestGetLine ==
    /\ AtPrompt /\ inputs = 0
    /\ \E d \in 0..MaxDepth : \E e \in NestExprs(d) : Commit(ReadLine(S, NestLine(e)))

NestNext == NestGetLine \/ DoPrint \/ EndOfLine \/ MainLoop \/ WarmReset

NestSpec == Init /\ [][NestNext]_allvars

(* ------------------------------------------------------------------ *)
(* The session of the emitter: a program of two constructs that print  *)
(* a message, compiled                                                  *)
(* ------------------------------------------------------------------ *)
MaxMsg == 3
Msgs == {SubSeq(Letters, 1, k) : k \in 0..MaxMsg}

PrMsg(m) == <<KW(TOK_PRMSG), Tok("str", 0, m)>>

(* pr.msg m | if 1 / pr.msg m / else / pr.dec 2 / endif |              *)
(* while 0 / pr.msg m / endwhile | word v = 0 / for v = 1 : 2 /        *)
(* pr.msg m / endfor | pr.dec 1 + 2                                    *)
EmitBlocks(v) ==
    UNION { { << PrMsg(m) >>,
              << <<KW(TOK_IF), NUM(1)>>, PrMsg(m), <<KW(TOK_ELSE)>>,
                 <<KW(TOK_PRDEC), NUM(2)>>, <<KW(TOK_ENDIF)>> >>,
              << <<KW(TOK_WHILE), NUM(0)>>, PrMsg(m), <<KW(TOK_ENDW)>> >>,
              << LWord(v, <<NUM(0)>>), LFor(v, <<NUM(1)>>, <<NUM(2)>>), PrMsg(m),
                 <<KW(TOK_ENDFOR)>> >>,
              << <<KW(TOK_PRDEC), NUM(1), O("+"), NUM(2)>> >> } : m \in Msgs }

EmitPrograms ==
    { b1 \o b2 \o << <<KW(TOK_END)>> >> : b1 \in EmitBlocks(V("i")), b2 \in EmitBlocks(V("j")) }

EmitEnter ==
    /\ AtPrompt /\ inputs = 0 /\ lines = <<>>
    /\ \E p \in EmitPrograms : Commit(StoreProgram(S, p))

EmitGetLine ==
    /\ AtPrompt /\ lines # <<>> /\ inputs = 0
    /\ Commit(ReadLine(S, CompLine))

EmitNext ==
    \/ EmitEnter \/ EmitGetLine \/ DoCompile \/ DoPrMsg \/ DoPrint \/ DoIf \/ DoElse
    \/ DoEndif \/ DoWhile \/ DoEndwhile \/ DoDeclare \/ DoFor \/ DoEndfor \/ DoEnd
    \/ EndOfLine \/ RunLoop \/ MainLoop

EmitSpec == Init /\ [][EmitNext]_allvars

(* ------------------------------------------------------------------ *)
(* The session of the failed compile: a program that reads a variable  *)
(* it has or has not declared, compiled, and a line typed afterwards   *)
(* that declares a variable and prints it                              *)
(* ------------------------------------------------------------------ *)
LookDecls == { <<>>, << LWord(V("y"), <<NUM(1)>>) >> }
LookUses ==
    { << <<KW(TOK_PRDEC), V("y")>> >>,
      << <<KW(TOK_PRDEC), NUM(1), O("+"), V("y")>> >>,
      << LFor(V("y"), <<NUM(1)>>, <<NUM(2)>>), <<KW(TOK_ENDFOR)>> >>,
      << LLet(V("y"), <<NUM(3)>>) >> }

LookPrograms == { d \o u \o << <<KW(TOK_END)>> >> : d \in LookDecls, u \in LookUses }

LookLines ==
    { LWord(V("w"), <<NUM(7)>>) \o Pr(0) \o <<SYM(";"), KW(TOK_PRDEC), V("w")>>,
      <<KW(TOK_BYTE), V("b"), SYM("="), NUM(5)>> \o <<SYM(";"), KW(TOK_PRDEC), V("b")>>,
      LArr(TOK_WORD, V("a"), 2, <<NUM(1), SYM(","), NUM(2)>>)
          \o <<SYM(";"), KW(TOK_PRDEC), V("a"), SYM("["), NUM(1), SYM("]")>>,
      LArr(TOK_BYTE, V("c"), 2, <<NUM(3), SYM(","), NUM(4)>>)
          \o <<SYM(";"), KW(TOK_PRDEC), V("c"), SYM("["), NUM(0), SYM("]")>> }

LookEnter ==
    /\ AtPrompt /\ inputs = 0 /\ lines = <<>>
    /\ \E p \in LookPrograms : Commit(StoreProgram(S, p))

LookCompile ==
    /\ AtPrompt /\ lines # <<>> /\ inputs = 0
    /\ Commit(ReadLine(S, CompLine))

LookGetLine ==
    /\ AtPrompt /\ inputs = 1
    /\ \E l \in LookLines : Commit(ReadLine(S, l))

LookNext ==
    \/ LookEnter \/ LookCompile \/ LookGetLine \/ DoCompile \/ DoDeclare \/ DoPrint \/ DoLet
    \/ DoFor \/ DoEndfor \/ DoEnd \/ EndOfLine \/ RunLoop \/ MainLoop

LookSpec == Init /\ [][LookNext]_allvars

(* ------------------------------------------------------------------ *)
(* The virtual machine that executes the emitted code                   *)
(* ------------------------------------------------------------------ *)
(* Evaluation stack st with its top last, call stack in mem growing    *)
(* down from RTCALLSTACKTOP, one word per address of its first byte.   *)
VmFuel == 64
VmStart ==
    [pc |-> RTPCSTART, sp |-> RTCALLSTACKTOP, st |-> <<>>, mem |-> <<>>, out |-> <<>>,
     halt |-> "run"]

VmOp(c, m) ==
    IF m.pc - RTPCSTART + 1 \in 1..Len(c) THEN c[m.pc - RTPCSTART + 1].op ELSE ""
VmImm(c, m) ==
    IF m.pc - RTPCSTART + 3 \in 1..Len(c)
    THEN c[m.pc - RTPCSTART + 2].b + 256 * c[m.pc - RTPCSTART + 3].b
    ELSE 0
VmPeek(m, a) ==
    IF \E k \in 1..Len(m.mem) : m.mem[k][1] = a
    THEN m.mem[CHOOSE k \in 1..Len(m.mem) : m.mem[k][1] = a][2]
    ELSE 0
VmPoke(m, a, v) ==
    IF \E k \in 1..Len(m.mem) : m.mem[k][1] = a
    THEN [k \in 1..Len(m.mem) |-> IF m.mem[k][1] = a THEN <<a, v>> ELSE m.mem[k]]
    ELSE Append(m.mem, <<a, v>>)
VmTop(m, k) == m.st[Len(m.st) + 1 - k]
VmPop(m, k) == SubSeq(m.st, 1, Len(m.st) - k)
(* The instructions modelled here *)
VmOps ==
    {"LDIMM", "PSHWORD", "POPWORD", "DUP", "DROP", "LDAWORDIMM", "STAWORDIMM", "INC", "GTE",
     "BRNCHIMM", "JMPIMM", "PRDEC", "END"}
VmCovers(c) == \A k \in 1..Len(c) : c[k].op \in VmOps \cup {""}

VmNeeds(o) ==
    CASE o \in {"PSHWORD", "DUP", "DROP", "STAWORDIMM", "INC", "BRNCHIMM", "PRDEC"} -> 1
      [] o = "GTE" -> 2
      [] OTHER -> 0

VmStep(c, m) ==
    LET o == VmOp(c, m)
        w == VmImm(c, m)
    IN IF Len(m.st) < VmNeeds(o) THEN [m EXCEPT !.halt = "fault"]
       ELSE CASE o = "LDIMM" -> [m EXCEPT !.st = Append(@, w), !.pc = @ + 3]
         [] o = "PSHWORD" -> [m EXCEPT !.mem = VmPoke(m, m.sp - 1, VmTop(m, 1)),
                                       !.sp = @ - 2, !.st = VmPop(m, 1), !.pc = @ + 1]
         [] o = "POPWORD" -> [m EXCEPT !.st = Append(@, VmPeek(m, m.sp + 1)),
                                       !.sp = @ + 2, !.pc = @ + 1]
         [] o = "DUP" -> [m EXCEPT !.st = Append(@, VmTop(m, 1)), !.pc = @ + 1]
         [] o = "DROP" -> [m EXCEPT !.st = VmPop(m, 1), !.pc = @ + 1]
         [] o = "LDAWORDIMM" -> [m EXCEPT !.st = Append(@, VmPeek(m, w)), !.pc = @ + 3]
         [] o = "STAWORDIMM" -> [m EXCEPT !.mem = VmPoke(m, w, VmTop(m, 1)),
                                          !.st = VmPop(m, 1), !.pc = @ + 3]
         [] o = "INC" -> [m EXCEPT !.st = Append(VmPop(m, 1), (VmTop(m, 1) + 1) % 65536),
                                   !.pc = @ + 1]
         [] o = "GTE" -> [m EXCEPT !.st = Append(VmPop(m, 2),
                                                 Bool(VmTop(m, 2) >= VmTop(m, 1))),
                                   !.pc = @ + 1]
         [] o = "BRNCHIMM" -> [m EXCEPT !.st = VmPop(m, 1),
                                        !.pc = IF VmTop(m, 1) # 0 THEN w ELSE @ + 3]
         [] o = "JMPIMM" -> [m EXCEPT !.pc = w]
         [] o = "PRDEC" -> [m EXCEPT !.out = Append(@, Item("dec", VmTop(m, 1), "")),
                                     !.st = VmPop(m, 1), !.pc = @ + 1]
         [] o = "END" -> [m EXCEPT !.halt = "end"]
         [] OTHER -> [m EXCEPT !.halt = "fault"]

RECURSIVE VmRun(_, _, _)
VmRun(c, m, fuel) ==
    IF m.halt # "run" THEN m
    ELSE IF fuel = 0 THEN [m EXCEPT !.halt = "fuel"]
    ELSE VmRun(c, VmStep(c, m), fuel - 1)

(* The values the machine leaves in the scalar variables: in compile   *)
(* mode a global holds its address in the machine where its value is   *)
(* in interpret mode.                                                  *)
VmVals(addrs, m) == {<<a[1], VmPeek(m, a[2])>> : a \in addrs}

(* ------------------------------------------------------------------ *)
(* Properties                                                           *)
(* ------------------------------------------------------------------ *)

(* C2: after a subroutine has returned, the variable list holds the    *)
(* variables it held just before the call, same names, types and       *)
(* order, and no variable of the callee is found by lookup.            *)
C2_VariablesAsBeforeCall ==
    \A i \in 1..Len(log.ret) :
        log.ret[i].halt = "none"
            => log.ret[i].vars = log.ret[i].varsCall /\ log.ret[i].visible = {}

(* C2, amended: the same for every callee that has not executed clear *)
C2_VariablesAsBeforeCallUnlessCleared ==
    \A i \in 1..Len(log.ret) :
        log.ret[i].halt = "none" /\ ~log.ret[i].cleared
            => log.ret[i].vars = log.ret[i].varsCall /\ log.ret[i].visible = {}

C2_Witness ==
    /\ log.ret # <<>> /\ log.ret[1].halt = "none" /\ ~log.ret[1].cleared
    /\ log.ret[1].varsCall # <<>> /\ log.ret[1].locals > 0
    /\ log.ret[1].vars = log.ret[1].varsCall

(* C3: a declaration whose name agrees in its first four characters    *)
(* with a variable already declared in the current scope reports redef *)
(* and leaves the variable list as it was.                             *)
C3_DuplicateDeclarationRejected ==
    \A i \in 1..Len(log.decl) :
        log.decl[i].dup
            => log.decl[i].rc # 0 /\ log.decl[i].redef /\ log.decl[i].same

(* C4: an assignment A[i] = v made in a callee through an array formal *)
(* changes element i of the caller's array and no other element, and   *)
(* the caller finds the new value there after the return.              *)
C4_ArrayPassedByReference ==
    /\ \A k \in 1..Len(log.aset) :
          log.aset[k].after = [log.aset[k].before EXCEPT ![log.aset[k].idx + 1] = log.aset[k].v]
    /\ AtPrompt /\ log.frames = <<>>
          => \A p \in log.pend :
                p[1] <= Len(vars) /\ vars[p[1]].body[p[2] + 1] = p[3]

C4_Witness ==
    /\ AtPrompt /\ log.frames = <<>> /\ log.aset # <<>>
    /\ log.aset[1].before[log.aset[1].idx + 1] # log.aset[1].v
    /\ <<log.aset[1].owner, log.aset[1].idx, log.aset[1].v>> \in log.pend
    /\ vars[log.aset[1].owner].body = log.aset[1].after

(* C5: new leaves the variable list unchanged, clear leaves the        *)
(* program store unchanged, and the statements that follow either one  *)
(* on the same input, a later return or endsub included, execute       *)
(* without a fault.                                                    *)
C5_NewAndClearKeepTheOther ==
    /\ \A k \in 1..Len(log.nc) :
          /\ log.nc[k].kind = "new" => log.nc[k].vars
          /\ log.nc[k].kind = "clear" => log.nc[k].prog
    /\ log.nc # <<>> => halt # "segv"

(* C6: in compile mode, outside subroutines, rtSP at every statement   *)
(* boundary is below the top of the call stack by the bytes that the   *)
(* PSHWORD, PSHBYTE, POPWORD and POPBYTE instructions emitted so far   *)
(* push, inside the bodies of for loops as well.                       *)
C6_SimulatedStackPointerTracksPushes ==
    \A b \in log.bound : b.sub = 0 => RTCALLSTACKTOP - b.sp = b.vsp

(* C7: in compile mode, once every if has been closed by endif and     *)
(* every while by endwhile, no branch operand emitted as the           *)
(* placeholder 0xffff by these constructs is left unpatched, and       *)
(* emit_fixup() has written only to addresses of placeholder operands. *)
C7_PlaceholdersPatchedOnClose ==
    compile = 1 /\ halt = "none"
        => /\ log.badfix = {}
           /\ log.cs = <<>> => log.open \subseteq {calls[k].addr : k \in 1..Len(calls)}

(* C8: when the line typed after a long jump to the warm-reset target  *)
(* is about to be parsed, the return stack is empty and skipFlag is    *)
(* clear.                                                              *)
C8_WarmResetClearsStackAndSkip ==
    \A k \in 1..Len(log.atline) :
        log.atline[k].warm
            => log.atline[k].sp = RETSTACKSZ - 1 /\ log.atline[k].skip = 0

(* C9: a return, whatever constructs the callee has left open and      *)
(* whatever their frames hold, puts returnSP back to its value before  *)
(* the call pushed its frame, leaves the value of the expression in    *)
(* the return register, removes the callee's variables and resumes at  *)
(* the text pointer the call saved.                                    *)
C9_ReturnUnwindsToCall ==
    \A k \in 1..Len(log.ret) :
        /\ log.ret[k].halt = "none"
        /\ log.ret[k].sp = log.ret[k].spCall
        /\ log.ret[k].reg = log.ret[k].value
        /\ log.ret[k].txt = log.ret[k].txtCall
        /\ ~log.ret[k].cleared => log.ret[k].vars = log.ret[k].varsCall

(* C10: a function invocation inside an expression executes statements *)
(* of the function up to its first executed return and no further; the *)
(* value of that return becomes the operand, and the current line, the *)
(* line counter, the return-stack depth and the operator-stack depth   *)
(* are what they were before the invocation.                           *)
C10_FunctionStopsAtFirstReturn ==
    \A k \in 1..Len(log.fn) :
        LET r == log.fn[k]
            rets == {i \in 1..Len(r.ev) : r.ev[i].tok = 0 /\ r.ev[i].lvl = r.lvl}
        IN /\ rets # {}
           /\ \A i \in rets : i = Len(r.ev) /\ r.operand = r.ev[i].val
           /\ r.sp1 = r.sp0 /\ r.osp1 = r.osp0
           /\ r.cur1 = r.cur0 /\ r.cnt1 = r.cnt0

(* C1: a stored program that has been run by the interpreter and       *)
(* compiled, and whose code consists of the modelled instructions,     *)
(* prints the same on the virtual machine as it printed interpreted    *)
(* and leaves the same values in its global variables.                 *)
C1_CompiledMatchesInterpreted ==
    (/\ log.irun # <<>> /\ log.comp # <<>>
     /\ log.irun[1].lines # <<>> /\ log.irun[1].lines = log.comp[1].lines
     /\ VmCovers(log.comp[1].code))
        => LET m == VmRun(log.comp[1].code, VmStart, VmFuel)
           IN /\ m.halt = "end"
              /\ m.out = log.irun[1].out
              /\ VmVals(log.comp[1].addrs, m) = log.irun[1].vals

(* C21: a line consisting of a lone period typed in an edit mode,      *)
(* entered by :a N or by :i N, :i 1 included, puts the editor back in  *)
(* immediate mode and adds no line to the program.                     *)
C21_PeriodLeavesEditMode ==
    \A k \in 1..Len(log.ed) :
        log.ed[k].text = <<".">> => log.ed[k].modeAfter = 0 /\ log.ed[k].same

(* C22: a line of properly nested if, else and endif, executed in      *)
(* interpret mode, prints the numbers of exactly the bodies that every *)
(* enclosing if has selected and nothing else, and at the statement    *)
(* after the outermost endif skipFlag is clear and the return stack is *)
(* as deep as before the outermost if.                                 *)
AfterOutermostEndif == Parsing /\ PosOf(txtPtr) = Len(lnbuf) - 2

C22_NestedIfSelectsBodies ==
    \A g \in [1..3 -> IfGuards] :
        lnbuf = IfLine(g)
            => /\ AtPrompt /\ inputs = 1
                    => out = Append(RefIf(IfStmts(g), <<>>, <<>>), Item("ch", 0, "\n"))
               /\ AfterOutermostEndif => skipFlag = 0 /\ returnSP = RETSTACKSZ - 1

(* C23: an if or while statement met while skipFlag is set, whatever   *)
(* its guard, a guard that invokes a function included, leaves         *)
(* skipFlag set: the skipped region lasts until the else, endif or     *)
(* endwhile of the construct that set skipFlag.                        *)
GuardInSkippedRegion ==
    /\ Parsing /\ skipFlag = 1 /\ StmtKind(S) = "kw"
    /\ matchstatement(SkipSemi(S)) \in {TOK_IF, TOK_WHILE}

C23_SkipHeldThroughNestedGuards ==
    [][GuardInSkippedRegion => skipFlag' = 1]_allvars

(* C24: the value the interpreter computes for an expression of       *)
(* literals, unary and binary operators and parentheses is the value   *)
(* of the reference evaluator, which takes the precedences of          *)
(* getprecedence(), groups operators of equal precedence from the left *)
(* and applies a unary operator to the operand that follows it; where  *)
(* the reference divides by zero the interpreter reports div/0.        *)
ExprDone == AtPrompt /\ inputs = 1 /\ Len(lnbuf) > 1 /\ IsKw(lnbuf[1], TOK_PRDEC)

C24_ValueMatchesReference ==
    ExprDone
        => LET r == RefEval(Tail(lnbuf))
           IN /\ out # <<>>
              /\ IF r.ok = "ok" THEN out[1] = Item("dec", r.v, "")
                 ELSE out[1].k = "err" /\ out[1].v = ERR_DIVZERO

(* 5 * - 3 + 2 is -13: the unary minus first, then * before + *)
C24_Witness ==
    /\ ExprDone
    /\ Tail(lnbuf) = <<NUM(5), O("*"), O("-"), NUM(3), O("+"), NUM(2)>>
    /\ out[1] = Item("dec", 0 - 13, "")

(* C25: in compile mode the application of an operator emits one byte, *)
(* the opcode of the operator, and no immediate push; the application  *)
(* of unary plus emits nothing.                                        *)
C25_OperatorEmitsItsOpcode ==
    \A r \in log.ops :
        IF r.tok = TOK_UNP THEN r.code = <<>>
        ELSE /\ Len(r.code) = 1
             /\ r.code[1].op \notin {"", "LDIMM"}
             /\ r.tok # TOK_POW => r.code[1].op = VMOpOf(r.tok)

(* C26: when a return statement ends a subroutine that was invoked by  *)
(* a call statement, whatever the caller's open frames hold, execution *)
(* goes on with the statement after the call; only the return of a     *)
(* function invoked from an expression makes parseline return.         *)
InvokedByCallStatement ==
    LET ks == {k \in 1..Len(log.cs) : log.cs[k] = "call"}
    IN ks # {} /\ (MaxOf(ks) = 1 \/ log.cs[MaxOf(ks) - 1] # "fn")

C26_CallStatementReturnContinues ==
    [][(/\ AtKw({TOK_RET}) /\ InvokedByCallStatement
        /\ halt' = "none" /\ ~(pc' = "ret" /\ status' = 2))
            => pc' = "parse"]_allvars

(* C27: a function invoked from an expression whose body runs into    *)
(* endsub yields 0, and nothing outside its body is executed before    *)
(* the expression resumes: endsub is the last statement executed under *)
(* the invocation, and a run of the program executes each line of the  *)
(* caller once.                                                        *)
RanIntoEndsub(r) == \E i \in 1..Len(r.ev) : r.ev[i].tok = TOK_ENDSUBR /\ r.ev[i].lvl = r.lvl

FallRunDone == AtPrompt /\ inputs = 1 /\ lnbuf = <<KW(TOK_RUN)>> /\ lines = ProgFall

C27_EndsubYieldsZero ==
    /\ \A k \in 1..Len(log.fn) :
          LET r == log.fn[k]
          IN RanIntoEndsub(r)
                => /\ r.operand = 0
                   /\ \A i \in 1..Len(r.ev) : r.ev[i].lvl >= r.lvl
                   /\ r.ev[Len(r.ev)].tok = 0
                   /\ r.ev[Len(r.ev) - 1].tok = TOK_ENDSUBR
    /\ FallRunDone
          => out = <<Item("dec", 1, ""), Item("dec", 0, ""), Item("dec", 3, ""),
                     Item("ch", 0, "\n")>>

(* C28: an actual argument of a call made inside a subroutine is       *)
(* evaluated with the caller's locals, also after an earlier part of   *)
(* the argument has invoked a function, and the formal is created in   *)
(* the callee's frame: the callee prints 6 for x + f() and for         *)
(* f() + x, where the caller's local x is 5 and f() is 1.              *)
ArgCallDone ==
    AtPrompt /\ inputs >= 1 /\ lnbuf \in {LCall("h", <<>>), LCall("j", <<>>)}

C28_ArgumentsUseCallerFrame ==
    ArgCallDone => /\ Len(out) >= 2
                   /\ out[Len(out) - 1] = Item("dec", 6, "")
                   /\ out[Len(out)] = Item("ch", 0, "\n")

(* C29: the return stack is read and written at indices within         *)
(* 0..RETSTACKSZ-1 only: the slot where else, endif, endfor and        *)
(* endwhile look for the tag of their frame, and the slot parseline    *)
(* inspects after a return, lie inside the array.                      *)
TagSlot(token) ==
    returnSP + (IF token = TOK_ENDFOR THEN 5 ELSE IF token = TOK_ENDW THEN 4 ELSE 3)

InStack(i) == i >= 0 /\ i <= RETSTACKSZ - 1

C29_ReturnStackInBounds ==
    /\ \A token \in {TOK_ELSE, TOK_ENDIF, TOK_ENDFOR, TOK_ENDW} :
          AtKw({token}) => InStack(TagSlot(token))
    /\ (AtKw({TOK_RET}) /\ compile = 0 /\ FindCallFrame(S) < RETSTACKSZ)
          => InStack(FindCallFrame(S) + 2)

(* C30: an interpreted for loop over a declared word variable runs its *)
(* body max(1, end - start + 1) times with the variable holding start, *)
(* start + 1, ...; the limit is the value the limit expression had at  *)
(* the for statement; after the loop the return stack is as deep as it *)
(* was before.                                                         *)
Iterations(b, e) == IF e - b + 1 > 1 THEN e - b + 1 ELSE 1

AfterLoop == Parsing /\ PosOf(txtPtr) = Len(lnbuf) - 2

C30_ForRunsBodyCountedTimes ==
    \A b \in CountStarts, e \in CountEnds :
        lnbuf = CountLine(b, e)
            => /\ (AtPrompt /\ inputs = 1)
                    => out = [k \in 1..Iterations(b, e) |-> Item("dec", b + k - 1, "")]
                                \o <<Item("dec", 77, ""), Item("ch", 0, "\n")>>
               /\ AfterLoop => returnSP = RETSTACKSZ - 1

C30_Witness ==
    /\ AtPrompt /\ inputs = 1 /\ lnbuf = CountLine(1, 4)
    /\ out = <<Item("dec", 1, ""), Item("dec", 2, ""), Item("dec", 3, ""),
               Item("dec", 4, ""), Item("dec", 77, ""), Item("ch", 0, "\n")>>

(* C31: in interpret mode every evaluation of one while guard finds    *)
(* the return stack at the same depth, and at the statement after the  *)
(* loop the depth is what it was before the while and skipFlag is      *)
(* clear.                                                              *)
AfterWhile ==
    /\ Parsing
    /\ IF lines = <<>> THEN PosOf(txtPtr) = Len(lnbuf) - 2
       ELSE current = Len(ProgWhile) - 1 /\ PosOf(txtPtr) = 1

C31_WhileKeepsStackDepth ==
    /\ \A a, b \in log.wh : a.line = b.line /\ a.txt = b.txt => a.sp = b.sp
    /\ AfterWhile => returnSP = RETSTACKSZ - 1 /\ skipFlag = 0

C31_Witness ==
    /\ AfterWhile /\ lnbuf = NestedLine(3)
    /\ Cardinality(log.wh) = 2
    /\ out = <<Item("dec", 2, ""), Item("dec", 1, ""), Item("dec", 2, ""),
               Item("dec", 1, ""), Item("dec", 2, ""), Item("dec", 1, "")>>

(* C32: the definition that the scan of the program text found for a    *)
(* call when the call was compiled is the definition the linker binds  *)
(* the call to: after a compile that ended without error the operand   *)
(* of every JSR is the entry address of the definition its call was    *)
(* scanned to, and a compile in which every call was scanned to a      *)
(* definition does not end with the link error.                        *)
OperandAt(cd, address) ==
    cd[address - RTPCSTART + 1].b + 256 * cd[address - RTPCSTART + 2].b

Compiled == AtPrompt /\ inputs = 1 /\ lnbuf = CompLine /\ log.bind # {}

LinkFailed == \E i \in 1..Len(out) : out[i].k = "err" /\ out[i].v = ERR_LINK

C32_CallBoundToScannedDefinition ==
    Compiled
        => /\ ~LinkFailed
           /\ \A b \in log.bind :
                 \E d \in log.defs : d.line = b.line /\ OperandAt(code, b.addr) = d.addr

(* C33: after the compiler has processed the formals of a sub, the      *)
(* offset stored for each formal is 4 plus the sizes of the formals    *)
(* after it (word and array reference 2, byte 1), and the call pushes  *)
(* its arguments in the order of the formals with these sizes.         *)
FormalSize(kind) == IF kind = "byte" THEN 1 ELSE 2

RECURSIVE SizeFrom(_, _)
SizeFrom(ks, i) == IF i > Len(ks) THEN 0 ELSE FormalSize(ks[i]) + SizeFrom(ks, i + 1)

FormalOffset(v) == IF IsArrayT(v.type) = 1 THEN v.bodyptr ELSE v.val

InSubBody == Parsing /\ compile = 1 /\ compilingsub = 1 /\ current = 4

AfterCallLine == Parsing /\ compile = 1 /\ current = 2

IsPush(x) == x.op \in {"PSHWORD", "PSHBYTE"}

C33_FormalOffsetsMatchPushes ==
    \A ks \in FormalLists :
        ProgramOf(lines) = FormalProgram(ks)
            => /\ InSubBody
                    => /\ Len(vars) = LastMarker(vars) + Len(ks)
                       /\ \A i \in 1..Len(ks) :
                             FormalOffset(vars[LastMarker(vars) + i]) = 4 + SizeFrom(ks, i + 1)
               /\ AfterCallLine
                    => SelectSeq(code, IsPush)
                          = [i \in 1..Len(ks) |->
                               OpByte(IF FormalSize(ks[i]) = 2 THEN "PSHWORD" ELSE "PSHBYTE")]

C33_Witness ==
    /\ InSubBody
    /\ ProgramOf(lines) = FormalProgram(<<"byte", "word[]", "byte">>)
    /\ FormalOffset(vars[LastMarker(vars) + 1]) = 7
    /\ FormalOffset(vars[LastMarker(vars) + 2]) = 5
    /\ FormalOffset(vars[LastMarker(vars) + 3]) = 4

(* C34: in the interpreter the declaration of an array of n elements   *)
(* with a string of k characters stores the characters in the elements *)
(* 0..k-1 and 0 in element k when k + 1 <= n, whatever the arena held  *)
(* before, and reports too long and creates no variable when           *)
(* k + 1 > n.                                                          *)
StrDeclared == AtPrompt /\ inputs = 1

C34_StringInitializerTerminated ==
    \A kw \in {TOK_BYTE, TOK_WORD}, n \in 1..MaxDim, chars \in Strings :
        (StrDeclared /\ lnbuf = StrLine(kw, n, chars))
            => IF Len(chars) + 1 <= n
               THEN /\ Len(vars) = 1 /\ vars[1].sz = n
                    /\ \A i \in 1..Len(chars) : vars[1].body[i] = CharCode(chars[i])
                    /\ vars[1].body[Len(chars) + 1] = 0
               ELSE /\ vars = <<>>
                    /\ \E i \in 1..Len(out) : out[i].k = "err" /\ out[i].v = ERR_TOOLONG

(* The text pointer is past a comment marker of the line it is in *)
AfterComment(s) ==
    /\ IsTxtAddr(s.txtPtr)
    /\ \E p \in 1..Len(TextOf(s, LineOf(s.txtPtr))) :
          /\ p < PosOf(s.txtPtr)
          /\ TextOf(s, LineOf(s.txtPtr))[p] = KW(TOK_COMM)

(* C35: no step of parseline() taken with the text pointer past a      *)
(* comment marker of its line changes skipFlag or the return stack,    *)
(* whether skipFlag is set or not: the statements written inside a     *)
(* comment are never dispatched.                                       *)
C35_CommentTextNotDispatched ==
    [][(Parsing /\ AfterComment(S))
         => /\ skipFlag' = skipFlag
            /\ returnSP' = returnSP
            /\ return_stack' = return_stack]_allvars

NestDone == AtPrompt /\ inputs = 1
Reported(e) == \E i \in 1..Len(out) : out[i].k = "err" /\ out[i].v = e
Evaluated ==
    /\ \E i \in 1..Len(out) : out[i].k = "dec"
    /\ \A i \in 1..Len(out) : out[i].k # "err"
    /\ ~log.warm

(* C36: the evaluation of an expression, however deeply it is nested,  *)
(* prints its value or reports 'complex' and jumps to the reset point; *)
(* operatorSP and operandSP stay in 0..STACKSZ-1, no element outside   *)
(* either expression stack is read or written, and the precedence      *)
(* drain of push_operator() never pops a SENTINEL.                     *)
C36_ExpressionStacksInBounds ==
    /\ InExprStack(operatorSP) /\ InExprStack(operandSP)
    /\ log.xs = {}
    /\ NestDone => Evaluated \/ (Reported(ERR_COMPLEX) /\ log.warm)
    /\ halt = "jmp" => Reported(ERR_COMPLEX)

C36_Witness ==
    /\ NestDone /\ lnbuf = NestLine(Rep(<<O("-")>>, STACKSZ - 1) \o <<NUM(1)>>)
    /\ Reported(ERR_COMPLEX) /\ log.warm /\ log.xs = {}

(* C37: since the start of a compile rtPC - RTPCSTART is the number of *)
(* bytes written to the code buffer, 1 for each emit(), 3 for each     *)
(* emit_imm() and 2 + the length of the message for each emitprmsg();  *)
(* emit_fixup() changes the two bytes at its address and nothing else, *)
(* and leaves rtPC and the end of the code where they were.            *)
C37_ProgramCounterCountsBytes ==
    /\ rtPC - RTPCSTART = Len(code)
    /\ Len(code) = (log.em.one - log.em.msg) + 3 * log.em.imm
                       + (2 * log.em.msg + log.em.chars)
    /\ \A f \in log.fx :
          /\ f.bytes = <<DataByte(Lo(f.word)), DataByte(Hi(f.word))>>
          /\ f.rest /\ f.same

C37_Witness ==
    /\ AtPrompt /\ inputs = 1 /\ lnbuf = CompLine
    /\ log.em.msg = 2 /\ log.em.chars = 2 * MaxMsg /\ log.em.imm > 0
    /\ Cardinality(log.fx) >= 3
    /\ rtPC > RTPCSTART

(* C38: compiletimelookup is 0 whenever a statement is about to be    *)
(* executed in interpret mode, also after a compile that has failed.   *)
C38_LookupFlagClearWhenInterpreting ==
    (Parsing /\ compile = 0 /\ StmtKind(S) \in {"kw", "let"}) => compiletimelookup = 0

(* C11: else or endif executed when the innermost open construct is    *)
(* not an if, endfor when it is not a for, endwhile when it is not a   *)
(* while (or when nothing is open) reports no if, no for or no while   *)
(* and changes neither the return stack nor skipFlag.                  *)
C11_MismatchedCloserReported ==
    \A i \in 1..Len(log.cx) :
        log.cx[i].top # ConstructOf(log.cx[i].tok)
            => log.cx[i].err = CloserErr(log.cx[i].tok) /\ log.cx[i].same

(* C12: while skipFlag is set, a statement other than if, else, endif, *)
(* while and endwhile is consumed up to the next semicolon or the end  *)
(* of the line; it changes no variable, prints nothing and changes     *)
(* neither the program store nor the return stack.                     *)
SkipPending ==
    /\ Parsing /\ skipFlag # 0 /\ TxtOk(S)
    /\ CurTok(SkipSemi(S)).t # "eol"
    /\ matchstatement(SkipSemi(S)) \notin SkipToks

C12_SkippedStatementInert ==
    [][SkipPending =>
          /\ vars' = vars /\ out' = out /\ skipFlag' = skipFlag
          /\ lines' = lines /\ program' = program /\ freed' = freed
          /\ return_stack' = return_stack /\ returnSP' = returnSP
          /\ pc' = "parse" /\ halt' = "none"
          /\ txtPtr' > SkipSemi(S).txtPtr
          /\ TokAt(S, txtPtr').t = "eol" \/ IsSym(TokAt(S, txtPtr'), ";")
          /\ \A q \in (SkipSemi(S).txtPtr)..(txtPtr' - 1) :
                  TokAt(S, q).t # "eol" /\ ~IsSym(TokAt(S, q), ";")]_allvars

C12_Witness ==
    /\ Parsing /\ skipFlag # 0 /\ current # 0 /\ vars # <<>>
    /\ CurTok(S).t = "eol"
    /\ TextOf(S, current)[1] = KW(TOK_PRDEC)
    /\ txtPtr > TxtAddr(current, 1)


(* C13: a for statement whose loop variable is not declared creates    *)
(* the variable with the start value and enters the loop, and the line *)
(* for i = 1 : 4 ; pr.dec i ; pr.ch ' ' ; endfor ; pr.nl entered with   *)
(* no variables prints 1 2 3 4 and a newline.                           *)
ForUndeclared ==
    /\ AtKw({TOK_FOR}) /\ compile = 0
    /\ TokAt(S, SkipSemi(S).txtPtr + 1).t = "id"
    /\ Do("findintvar", S, <<TokAt(S, SkipSemi(S).txtPtr + 1).s, 0>>).rv = 0
    /\ TokAt(S, SkipSemi(S).txtPtr + 3).t = "num"
    /\ TokAt(S, SkipSemi(S).txtPtr + 5).t = "num"

C13_ForCreatesLoopVariable ==
    /\ [][ForUndeclared =>
            /\ halt' = "none" /\ pc' = "parse" /\ returnSP' = returnSP - 5
            /\ \E v \in 1..Len(vars') :
                  /\ vars'[v].name = key(TokAt(S, SkipSemi(S).txtPtr + 1).s)
                  /\ vars'[v].val = TokAt(S, SkipSemi(S).txtPtr + 3).v]_allvars
    /\ [](AtPrompt /\ inputs = 1 /\ lnbuf = ForLine /\ Len(out) >= Len(ForLineOut)
            => SubSeq(out, 1, Len(ForLineOut)) = ForLineOut)
    /\ [](AtPrompt /\ inputs = 1 /\ lnbuf = ForLine => Len(out) >= Len(ForLineOut))

(* C14: in interpret mode an application of / or % to a zero right     *)
(* operand reports div/0 and fails the statement, pushes no result,    *)
(* leaves operandSP and operatorSP within [0, STACKSZ-1], and the next  *)
(* line read at the prompt starts on cleared expression stacks.        *)
C14_DivZero ==
    /\ [][Len(log'.dz) > Len(log.dz) =>
            /\ Len(log'.dz) = 1
            /\ log'.dz[1].err = ERR_DIVZERO /\ log'.dz[1].rc = 1 /\ ~log'.dz[1].pushed
            /\ halt' = "none" /\ pc' = "ret" /\ status' = 2]_allvars
    /\ [](log.dz # <<>> => operandSP \in 0..(STACKSZ - 1) /\ operatorSP \in 0..(STACKSZ - 1))
    /\ [][log.dz # <<>> /\ pc = "prompt" /\ pc' = "parse" =>
            /\ operandSP' = STACKSZ - 1 /\ operatorSP' = STACKSZ - 2
            /\ operator_stack'[STACKSZ - 1] = SENTINEL]_allvars

C14_Witness ==
    /\ Parsing /\ inputs > 1 /\ log.dz = <<>> /\ operandSP = STACKSZ - 1
    /\ \E k \in 1..Len(out) : out[k].k = "err" /\ out[k].v = ERR_DIVZERO

(* C15: a word or byte array declaration whose dimension evaluates to  *)
(* 0 or to a negative value reports bad dim and creates no variable.   *)
C15_BadDimension ==
    \A i \in 1..Len(log.dim) :
        log.dim[i].isarray = 1 /\ log.dim[i].dim <= 0
            => log.dim[i].err = ERR_DIM /\ log.dim[i].rc # 0 /\ log.dim[i].same

C15_NegativeDimensionSeen ==
    \E i \in 1..Len(log.dim) :
        log.dim[i].isarray = 1 /\ log.dim[i].dim < 0 /\ log.dim[i].err = ERR_DIM

(* C16: in interpret mode every read a[e] and every assignment         *)
(* a[e] = v whose subscript is outside [0, n), -1 included, reports    *)
(* bad idx, yields no value or address and modifies no memory.         *)
C16_BadIndex ==
    \A r \in log.idx :
        r.err = ERR_SUBSCR /\ r.rc # 0 /\ ~r.pushed /\ r.same

C16_WriteRejected ==
    \E r \in log.idx : r.kind = "write" /\ r.idx = -1 /\ r.err = ERR_SUBSCR /\ r.same

(* C17: compiling a program that contains call foo() and no definition *)
(* of foo reports link, from the linker pass at the end of comp, after *)
(* the whole program has been compiled; no other error is reported.    *)
C17_UnresolvedCallReportsLink ==
    AtPrompt /\ ProgramOf(lines) = ProgLink /\ lnbuf = CompLine
        => /\ \E k \in 1..Len(out) : out[k].k = "err" /\ out[k].v = ERR_LINK
           /\ \A k \in 1..Len(out) : out[k].k = "err" => out[k].v = ERR_LINK

(* C18: once the interrupt check has reported a stop request during    *)
(* run, no further statement of the program is executed, and the run   *)
(* that saw it returns with the return stack reset and skipFlag clear; *)
(* also for a run started by an immediate call statement or by a       *)
(* function invoked from an expression.                                *)
C18_StopEndsExecution ==
    /\ [](~log.late)
    /\ [][log.brk /\ pc = "ret" /\ status = 3 /\ hostStack # <<>> /\ halt = "none"
            => returnSP' = RETSTACKSZ - 1 /\ skipFlag' = 0
               /\ Len(hostStack') < Len(hostStack)]_allvars

C18_FunctionStopped ==
    /\ log.brk /\ ~log.late /\ AtPrompt /\ lnbuf = <<KW(TOK_PRDEC), V("f"), SYM("("), SYM(")")>>

(* The non-empty pieces of a file cut at every LF and CR, in order *)
NonEmptyLines(data) ==
    LET Cut[k \in 0..Len(data)] ==
            IF k = 0 THEN [acc |-> <<>>, cur |-> <<>>]
            ELSE LET c == Cut[k - 1]
                 IN IF data[k] \in {LF, CR}
                    THEN [acc |-> IF c.cur = <<>> THEN c.acc ELSE Append(c.acc, c.cur),
                          cur |-> <<>>]
                    ELSE [acc |-> c.acc, cur |-> Append(c.cur, data[k])]
        e == Cut[Len(data)]
    IN IF e.cur = <<>> THEN e.acc ELSE Append(e.acc, e.cur)

(* C19: loading a file leaves as the program exactly the non-empty     *)
(* lines of the file, cut at every LF and CR, in file order; an empty  *)
(* line adds no program line, and a last line without terminator is    *)
(* appended, also when it is the only line.                            *)
C19_LoadSplitsNonEmptyLines ==
    log.io.last = "load" /\ file.exists /\ pc # "parse"
        => halt = "none" /\ ProgramText(S) = NonEmptyLines(file.data)

(* C20: a program whose lines are shorter than 255 characters, written *)
(* with :w and read back with :r, is the same sequence of lines.       *)
C20_SaveLoadRoundTrip ==
    /\ log.io.last = "load" /\ log.io.origin = "save" /\ pc # "parse"
    /\ \A k \in 1..Len(log.io.text) : Len(log.io.text[k]) < BufSz
    => halt = "none" /\ status = 0 /\ ProgramText(S) = log.io.text

C20_Witness ==
    /\ log.io.last = "load" /\ log.io.origin = "save" /\ AtPrompt
    /\ Len(log.io.text) = 3 /\ log.io.text[1] = A254 /\ log.io.text[2] = <<>>
    /\ log.io.text[3] = <<"b", "a">> /\ ProgramText(S) = log.io.text
====
